---- MODULE Spec2Model ----
(***************************************************************************)
(* TimeClock Pro: the punch ledger (SqliteStorage), the HTTP routes that   *)
(* write to it, and the employee dashboard's clock toggle.                 *)
(*                                                                         *)
(* Time is the wall clock in milliseconds.  Coordinates are metres of arc  *)
(* along the meridian of the geofence centre: every device position and    *)
(* every configured centre has the same longitude, so the haversine        *)
(* distance of calculateDistance is the absolute latitude difference.      *)
(***************************************************************************)
EXTENDS Integers, Sequences, FiniteSets, TLC

(* ------------------------------ bounds -------------------------------- *)
TicksPerWindow == 2
MaxTicks == 2
MaxIds == 2
MaxWeekPunches == 4
MaxCorrections == 1
MaxRequests == 1

(* ------------------------- program constants -------------------------- *)
DedupWindowMs == 30 * 1000
DefaultGeoRadius == 500

TickMs == DedupWindowMs \div TicksPerWindow
MaxNow == MaxTicks * TickMs
Times == {k * TickMs : k \in 0..MaxTicks}

(* ------------------------------ values -------------------------------- *)
Null == -1
NoSession == "anonymous"
Staff == {"adm", "emp"}
Sessions == Staff \cup {NoSession}
Slots == {1, 2}

CentreLat == 2 * DefaultGeoRadius
CentreLon == 2 * DefaultGeoRadius
NearLat == CentreLat
FarLat == CentreLat + DefaultGeoRadius + 100
WideRadius == DefaultGeoRadius + 200
DevicePositions == {Null, NearLat, FarLat}

IpAddress == "127.0.0.1"
DuplicateMessage == "Duplicate punch detected. Please wait before punching again."

NoRow ==
  [id |-> 0, employee_id |-> "", punch_type |-> "", timestamp |-> 0,
   latitude |-> Null, longitude |-> Null, ip_address |-> "", flagged |-> 0]

NoInsert ==
  [employeeId |-> "", punchType |-> "", latitude |-> Null, longitude |-> Null,
   ipAddress |-> "", flagged |-> FALSE]

NoPunch ==
  [id |-> 0, employeeId |-> "", punchType |-> "", timestamp |-> 0,
   latitude |-> Null, longitude |-> Null, ipAddress |-> "", flagged |-> FALSE]

NoUpdate ==
  [has |-> {}, timestamp |-> 0, punchType |-> "", latitude |-> Null, longitude |-> Null,
   flagged |-> FALSE]

DefaultSettings ==
  [geofencingEnabled |-> FALSE, geoLat |-> Null, geoLon |-> Null, geoRadius |-> DefaultGeoRadius]

SettingsChoices ==
  { DefaultSettings,
    [geofencingEnabled |-> FALSE, geoLat |-> CentreLat, geoLon |-> CentreLon, geoRadius |-> DefaultGeoRadius],
    [geofencingEnabled |-> TRUE, geoLat |-> CentreLat, geoLon |-> CentreLon, geoRadius |-> Null],
    [geofencingEnabled |-> TRUE, geoLat |-> CentreLat, geoLon |-> CentreLon, geoRadius |-> WideRadius],
    [geofencingEnabled |-> TRUE, geoLat |-> Null, geoLon |-> Null, geoRadius |-> DefaultGeoRadius],
    [geofencingEnabled |-> TRUE, geoLat |-> 0, geoLon |-> CentreLon, geoRadius |-> DefaultGeoRadius] }

(* A request slot holds one createPunch call in flight. *)
IdleSlot ==
  [pc |-> "idle", route |-> "none", via |-> "none", sess |-> NoSession,
   punch |-> NoInsert, id |-> 0, timestamp |-> 0, supplied |-> Null,
   loc |-> Null, seen |-> DefaultSettings, store |-> "sqlite"]

(* The last HTTP response, with the request it answers. *)
NoReply ==
  [route |-> "none", via |-> "none", sess |-> NoSession, status |-> 0, message |-> "",
   err |-> "none", id |-> 0]

(* ------------------------ dashboard time values ----------------------- *)
MsPerMinute == 1000 * 60
MsPerHour == 1000 * 60 * 60
MsPerDay == 24 * MsPerHour

ClockTime(h, m) == h * MsPerHour + m * MsPerMinute

(* Days of the displayed week, counted from its Sunday; timestamps are      *)
(* milliseconds since the local midnight that starts the week.             *)
DaysOfWeek == 0..6
TodayIndex == 1
PunchDays == {TodayIndex - 1, TodayIndex}
PunchClockTimes == {ClockTime(9, 0), ClockTime(9, 5), ClockTime(12, 0), ClockTime(13, 0), ClockTime(17, 0)}
RenderClockTimes == {ClockTime(11, 0), ClockTime(17, 0)}

PunchTimes == {d * MsPerDay + c : d \in PunchDays, c \in PunchClockTimes}
RenderTimes == {TodayIndex * MsPerDay + c : c \in RenderClockTimes}

(* A quotient the dashboard computes in floating point, kept exact. *)
Quotient(n, d) == [num |-> n, den |-> d]

NoDashboard ==
  [phase |-> "loading", weeklyPunches |-> <<>>, isCurrentlyClockedIn |-> FALSE, at |-> 0,
   hoursWorked |-> Quotient(0, MsPerHour), breakTime |-> Quotient(0, MsPerMinute),
   weeklyHours |-> [i \in DaysOfWeek |-> Quotient(0, MsPerHour)]]

(* randomUUID() of a new correction: any id not yet in the table. *)
CorrectionIds == 1..MaxCorrections

(* randomUUID() of a new time-off request. *)
RequestIds == 1..MaxRequests

(* ------------------------- time-off requests ------------------------- *)
(* Dates are the 'YYYY-MM-DD' strings of March 2025, which compare as their *)
(* day numbers do.                                                          *)
RequestDates == {10, 11, 12}
QueryDates == {11, 12, 20}

Backends == {"sqlite", "mysql"}

(* The last response of GET /api/time-off/calendar with its query. *)
NoCalendar == [backend |-> "none", startDate |-> 0, endDate |-> 0, requests |-> {}]

(* --------------------------- external sync ---------------------------- *)
(* The background sync of the last punch that started one. *)
NoSync == [state |-> "none", punchId |-> 0, result |-> "none"]

(* What syncPunchToExternalClock settles with: a success result, a failure  *)
(* result, or a rejection (browser.close() throwing in its finally).        *)
SyncOutcomes == {"success", "failure", "throws"}

(* isExternalSyncEnabled(): false in this build, true with the line it      *)
(* keeps in a comment.                                                      *)
SyncSwitch == {FALSE, TRUE}

(* storage.getEmployee(employeeId) in the punch route: SqliteStorage        *)
(* resolves undefined on an error or a missing row; MySqlStorage awaits the *)
(* query, so an error rejects.                                              *)
LookupOutcomes(store) ==
  IF store = "mysql" THEN {"row", "undefined", "rejects"} ELSE {"row", "undefined"}

(* ------------------------- replay on both stores ---------------------- *)
NoReplay == [sqlite |-> {}, mysql |-> {}, calls |-> 0, at |-> 0, answer |-> <<"none", "none">>]

(* --------------------------- kiosk countdown -------------------------- *)
(* The employee dashboard of a kiosk: the two pieces of React state        *)
(* (logoutCountdown, countdownInterval; 0 is null), the timers setInterval  *)
(* has started and clearInterval has not stopped, the clock actions under   *)
(* way (waiting for the location, or for the answer of the POST), what the  *)
(* store holds of this employee inside the 30 s window, and how the session *)
(* ended. stayChosen records that Stay Logged In was the last answer to a   *)
(* countdown.                                                               *)
CountdownFrom == 5
TapIds == 1..MaxIds

NoKiosk ==
  [store |-> "none", logoutCountdown |-> 0, countdownInterval |-> 0, intervals |-> {},
   taps |-> {}, nextTap |-> 1, lastPunch |-> "none", committed |-> {},
   stayChosen |-> FALSE, loggedOutBy |-> "none"]

(* ------------------------- admin statistics -------------------------- *)
NoStats ==
  [backend |-> "none", activeEmployees |-> 0, clockedInToday |-> 0, punchesToday |-> 0,
   pendingCorrections |-> 0]

VARIABLES now, punches, nextId, settings, req, lastPunchQuery, reply, dashboard,
          corrections, timeOffRequests, calendar, adminStats, sync, replay, kiosk

(* The state outside the punch ledger and its routes. *)
(* The state of the flows that follow a punch: the external sync, the      *)
(* replay of calls on both stores, the kiosk countdown.                      *)
beyondWorkflows == <<sync, replay, kiosk>>

beyondLedger == <<dashboard, corrections, timeOffRequests, calendar, adminStats, beyondWorkflows>>

vars == <<now, punches, nextId, settings, req, lastPunchQuery, reply, beyondLedger>>

(* ------------------------- employee directory ------------------------- *)
isAdmin(employeeId) == employeeId = "adm"

getEmployee(id) == IF id \in Staff THEN [id |-> id, isAdmin |-> isAdmin(id)] ELSE [id |-> "", isAdmin |-> FALSE]

(* JavaScript truthiness of a nullable number: null, undefined and 0 are falsy. *)
Truthy(n) == n # Null /\ n # 0

Abs(n) == IF n < 0 THEN -n ELSE n

(* ----------------------------- geolocation ---------------------------- *)
calculateDistance(lat1, lon1, lat2, lon2) == Abs(lat2 - lat1)

isWithinGeofence(currentLat, currentLon, centerLat, centerLon, radiusMeters) ==
  calculateDistance(currentLat, currentLon, centerLat, centerLon) <= radiusMeters

(* -------------------------- SqliteStorage ----------------------------- *)
recentTimeThreshold_Short(timestamp) == timestamp - (DedupWindowMs \div 10)

recentTimeThreshold(timestamp) == timestamp - DedupWindowMs

(* SELECT id FROM punches WHERE employee_id = ? AND punch_type = ? AND timestamp > ? *)
RecentDuplicates_AnyType(rows, employeeId, punchType, threshold) ==
  {row \in rows : row.employee_id = employeeId /\ row.timestamp > threshold}

RecentDuplicates(rows, employeeId, punchType, threshold) ==
  {row \in rows : row.employee_id = employeeId /\ row.punch_type = punchType /\ row.timestamp > threshold}

(* The row written by the INSERT of createPunch. *)
InsertedRow(id, punch, timestamp) ==
  [id |-> id, employee_id |-> punch.employeeId, punch_type |-> punch.punchType,
   timestamp |-> timestamp, latitude |-> punch.latitude, longitude |-> punch.longitude,
   ip_address |-> punch.ipAddress, flagged |-> IF punch.flagged THEN 1 ELSE 0]

(* insertPunchSchema.parse: the punch type is one of the enum values; the   *)
(* coordinates are optional and nullable; unknown keys (timestamp) are      *)
(* stripped, so the parsed value never carries a timestamp.                 *)
insertPunchSchema_LatitudeRequired(punchData) ==
  punchData.punchType \in {"in", "out"} /\ punchData.latitude # Null

insertPunchSchema(punchData) == punchData.punchType \in {"in", "out"}

(* Row mapping used by every SELECT of punches: Boolean(row.flagged). *)
RowToPunch(row) ==
  [id |-> row.id, employeeId |-> row.employee_id, punchType |-> row.punch_type,
   timestamp |-> row.timestamp, latitude |-> row.latitude, longitude |-> row.longitude,
   ipAddress |-> row.ip_address, flagged |-> row.flagged # 0]

(* ORDER BY timestamp DESC: every ordering of the rows in which timestamps  *)
(* never increase (rows with equal timestamps come in any order).            *)
OrderByTimestampDesc_Ascending(rows) ==
  {s \in [1..Cardinality(rows) -> rows] :
     /\ \A i, j \in 1..Cardinality(rows) : i # j => s[i] # s[j]
     /\ \A i, j \in 1..Cardinality(rows) : i < j => s[i].timestamp <= s[j].timestamp}

OrderByTimestampDesc(rows) ==
  {s \in [1..Cardinality(rows) -> rows] :
     /\ \A i, j \in 1..Cardinality(rows) : i # j => s[i] # s[j]
     /\ \A i, j \in 1..Cardinality(rows) : i < j => s[i].timestamp >= s[j].timestamp}

(* SELECT * FROM punches WHERE employee_id = ? ORDER BY timestamp DESC LIMIT 1: *)
(* the set of values the query may resolve with.                               *)
getLastPunchByEmployee(rows, employeeId) ==
  LET sel == {row \in rows : row.employee_id = employeeId}
  IN IF sel = {} THEN {NoPunch}
     ELSE {RowToPunch(s[1]) : s \in OrderByTimestampDesc(sel)}

(* UPDATE punches SET ... WHERE id = ? with the columns updatePunch collects. *)
UpdatedRow(row, punch) ==
  [row EXCEPT
     !.timestamp = IF "timestamp" \in punch.has THEN punch.timestamp ELSE @,
     !.punch_type = IF "punchType" \in punch.has THEN punch.punchType ELSE @,
     !.latitude = IF "latitude" \in punch.has THEN punch.latitude ELSE @,
     !.longitude = IF "longitude" \in punch.has THEN punch.longitude ELSE @,
     !.flagged = IF "flagged" \in punch.has THEN (IF punch.flagged THEN 1 ELSE 0) ELSE @]

updatePunch_NoWhere(rows, id, punch) == {UpdatedRow(row, punch) : row \in rows}

updatePunch(rows, id, punch) ==
  {IF row.id = id THEN UpdatedRow(row, punch) ELSE row : row \in rows}

deletePunch(rows, id) == {row \in rows : row.id # id}

(* requireAdmin: the status the middleware answers with, 0 when it calls next(). *)
requireAdmin_SessionOnly(sess) == IF sess = NoSession THEN 401 ELSE 0

requireAdmin(sess) ==
  IF sess = NoSession THEN 401
  ELSE IF ~getEmployee(sess).isAdmin THEN 401
  ELSE 0

(* ---------------------- employee dashboard (client) ------------------- *)
isCurrentlyClockedIn(lastPunch) == lastPunch.punchType = "in"

(* handleClockToggle: the flagged value sent with the punch. loc is the     *)
(* device latitude, Null when getCurrentLocation rejects.                   *)
ToggleFlagged_FenceOnly(loc, s) ==
  IF loc = Null THEN s.geofencingEnabled
  ELSE IF s.geofencingEnabled /\ Truthy(s.geoLat) /\ Truthy(s.geoLon)
       THEN ~isWithinGeofence(loc, CentreLon, s.geoLat, s.geoLon,
                              IF Truthy(s.geoRadius) THEN s.geoRadius ELSE DefaultGeoRadius)
       ELSE FALSE

ToggleFlagged(loc, s) ==
  IF loc = Null THEN TRUE
  ELSE IF s.geofencingEnabled /\ Truthy(s.geoLat) /\ Truthy(s.geoLon)
       THEN ~isWithinGeofence(loc, CentreLon, s.geoLat, s.geoLon,
                              IF Truthy(s.geoRadius) THEN s.geoRadius ELSE DefaultGeoRadius)
       ELSE FALSE

(* ------------------- employee dashboard: derived time ----------------- *)
(* [...punches].sort((a, b) => a.timestamp - b.timestamp): a stable sort,  *)
(* punches with equal timestamps keep the order of the response.           *)
RECURSIVE SortedInto(_, _, _)
SortedInto(list, i, acc) ==
  IF i > Len(list) THEN acc
  ELSE LET k == Cardinality({j \in 1..Len(acc) : acc[j].timestamp <= list[i].timestamp})
       IN SortedInto(list, i + 1,
                     SubSeq(acc, 1, k) \o <<list[i]>> \o SubSeq(acc, k + 1, Len(acc)))

sortedPunches_Unsorted(list) == list

sortedPunches(list) == SortedInto(list, 1, <<>>)

(* The walk over the sorted punches: lastClockIn (Null when none is open)  *)
(* and the worked milliseconds accumulated so far.                         *)
RECURSIVE WorkedWalk_KeepFirstIn(_, _, _, _)
WorkedWalk_KeepFirstIn(sorted, i, lastClockIn, totalWorked) ==
  IF i > Len(sorted) THEN [lastClockIn |-> lastClockIn, totalWorked |-> totalWorked]
  ELSE IF sorted[i].punchType = "in"
       THEN WorkedWalk_KeepFirstIn(sorted, i + 1,
              IF lastClockIn # Null THEN lastClockIn ELSE sorted[i].timestamp, totalWorked)
       ELSE IF sorted[i].punchType = "out" /\ lastClockIn # Null
            THEN WorkedWalk_KeepFirstIn(sorted, i + 1, Null,
                                        totalWorked + (sorted[i].timestamp - lastClockIn))
            ELSE WorkedWalk_KeepFirstIn(sorted, i + 1, lastClockIn, totalWorked)

RECURSIVE WorkedWalk(_, _, _, _)
WorkedWalk(sorted, i, lastClockIn, totalWorked) ==
  IF i > Len(sorted) THEN [lastClockIn |-> lastClockIn, totalWorked |-> totalWorked]
  ELSE IF sorted[i].punchType = "in"
       THEN WorkedWalk(sorted, i + 1, sorted[i].timestamp, totalWorked)
       ELSE IF sorted[i].punchType = "out" /\ lastClockIn # Null
            THEN WorkedWalk(sorted, i + 1, Null, totalWorked + (sorted[i].timestamp - lastClockIn))
            ELSE WorkedWalk(sorted, i + 1, lastClockIn, totalWorked)

(* The second pass: gaps between an out and the in that follows it. *)
RECURSIVE BreakPass_ClosedSessionsOnly(_, _, _)
BreakPass_ClosedSessionsOnly(sorted, i, totalBreak) ==
  IF i > Len(sorted) THEN totalBreak
  ELSE IF /\ sorted[i - 1].punchType = "out" /\ sorted[i].punchType = "in"
          /\ i > 2 /\ sorted[i - 2].punchType = "in"
       THEN BreakPass_ClosedSessionsOnly(sorted, i + 1,
                                         totalBreak + (sorted[i].timestamp - sorted[i - 1].timestamp))
       ELSE BreakPass_ClosedSessionsOnly(sorted, i + 1, totalBreak)

RECURSIVE BreakPass(_, _, _)
BreakPass(sorted, i, totalBreak) ==
  IF i > Len(sorted) THEN totalBreak
  ELSE IF sorted[i - 1].punchType = "out" /\ sorted[i].punchType = "in"
       THEN BreakPass(sorted, i + 1, totalBreak + (sorted[i].timestamp - sorted[i - 1].timestamp))
       ELSE BreakPass(sorted, i + 1, totalBreak)

(* useMemo of hoursWorked and breakTime over today's punches. *)
HoursWorkedAndBreakTime_AlwaysLive(todayPunches, isClockedIn, at) ==
  IF Len(todayPunches) = 0
  THEN [hoursWorked |-> Quotient(0, MsPerHour), breakTime |-> Quotient(0, MsPerMinute)]
  ELSE LET sorted == sortedPunches(todayPunches)
           walk == WorkedWalk(sorted, 1, Null, 0)
           totalWorked == IF walk.lastClockIn # Null
                          THEN walk.totalWorked + (at - walk.lastClockIn)
                          ELSE walk.totalWorked
       IN [hoursWorked |-> Quotient(totalWorked, MsPerHour),
           breakTime |-> Quotient(BreakPass(sorted, 2, 0), MsPerMinute)]

HoursWorkedAndBreakTime(todayPunches, isClockedIn, at) ==
  IF Len(todayPunches) = 0
  THEN [hoursWorked |-> Quotient(0, MsPerHour), breakTime |-> Quotient(0, MsPerMinute)]
  ELSE LET sorted == sortedPunches(todayPunches)
           walk == WorkedWalk(sorted, 1, Null, 0)
           totalWorked == IF isClockedIn /\ walk.lastClockIn # Null
                          THEN walk.totalWorked + (at - walk.lastClockIn)
                          ELSE walk.totalWorked
       IN [hoursWorked |-> Quotient(totalWorked, MsPerHour),
           breakTime |-> Quotient(BreakPass(sorted, 2, 0), MsPerMinute)]

(* new Date(timestamp).toDateString(): the calendar date of a timestamp. *)
toDateString_ShiftedZone(timestamp) == (timestamp + 7 * MsPerHour) \div MsPerDay

toDateString(timestamp) == timestamp \div MsPerDay

(* useMemo of weeklyHours: the hours of each day of the week. *)
weeklyHours_LiveEveryDay(weeklyPunches, isClockedIn, today) ==
  [i \in DaysOfWeek |->
     LET dayPunches == SelectSeq(weeklyPunches, LAMBDA punch : toDateString(punch.timestamp) = i)
         walk == WorkedWalk(sortedPunches(dayPunches), 1, Null, 0)
     IN Quotient(IF isClockedIn /\ walk.lastClockIn # Null
                 THEN walk.totalWorked + (today - walk.lastClockIn)
                 ELSE walk.totalWorked, MsPerHour)]

weeklyHours(weeklyPunches, isClockedIn, today) ==
  [i \in DaysOfWeek |->
     LET dayPunches == SelectSeq(weeklyPunches, LAMBDA punch : toDateString(punch.timestamp) = i)
         walk == WorkedWalk(sortedPunches(dayPunches), 1, Null, 0)
     IN Quotient(IF i = toDateString(today) /\ isClockedIn /\ walk.lastClockIn # Null
                 THEN walk.totalWorked + (today - walk.lastClockIn)
                 ELSE walk.totalWorked, MsPerHour)]

(* The response of GET /api/employee/punches for today's window:           *)
(* timestamp >= startOfDay AND timestamp <= endOfDay.                      *)
todayPunchesData(weeklyPunches, today) ==
  SelectSeq(weeklyPunches,
            LAMBDA punch : /\ punch.timestamp >= toDateString(today) * MsPerDay
                           /\ punch.timestamp <= (toDateString(today) + 1) * MsPerDay)

(* ----------------------- SqliteStorage: corrections ------------------- *)
(* A request key that is not sent (undefined in the handler). *)
Absent == "<absent>"

CorrectionStatuses == {"pending", "approved", "denied"}

(* The tables a statement of the corrections storage can reach. *)
Database == [punches |-> punches, corrections |-> corrections]

(* INSERT INTO corrections (id, employee_id, punch_id, date, note, status). *)
createCorrection(id, correction) ==
  [id |-> id, employee_id |-> correction.employeeId, punch_id |-> correction.punchId,
   date |-> correction.date, note |-> correction.note,
   status |-> IF correction.status = "" THEN "pending" ELSE correction.status]

(* The columns updateCorrection collects: status and note, each when defined. *)
UpdatedCorrection(row, correction) ==
  [row EXCEPT
     !.status = IF correction.status # Absent THEN correction.status ELSE @,
     !.note = IF correction.note # Absent THEN correction.note ELSE @]

(* UPDATE corrections SET ... WHERE id = ?. A status outside the column's   *)
(* CHECK fails the statement and nothing is written.                        *)
updateCorrection_AppliesToPunch(db, id, correction) ==
  IF correction.status # Absent /\ correction.status \notin CorrectionStatuses THEN db
  ELSE [punches |->
          {IF correction.status = "approved"
              /\ \E c \in db.corrections : c.id = id /\ c.punch_id = row.id
           THEN [row EXCEPT !.flagged = 0, !.punch_type = IF @ = "in" THEN "out" ELSE "in"]
           ELSE row : row \in db.punches},
        corrections |->
          {IF row.id = id THEN UpdatedCorrection(row, correction) ELSE row : row \in db.corrections}]

updateCorrection(db, id, correction) ==
  IF correction.status # Absent /\ correction.status \notin CorrectionStatuses THEN db
  ELSE [db EXCEPT !.corrections =
          {IF row.id = id THEN UpdatedCorrection(row, correction) ELSE row : row \in @}]

(* What updateCorrection resolves with: the row read back, or undefined. *)
CorrectionResolved(db, id, correction) ==
  /\ ~(correction.status # Absent /\ correction.status \notin CorrectionStatuses)
  /\ \E row \in db.corrections : row.id = id

(* ----------------------- SqliteStorage: time off ---------------------- *)
(* SQL NULL in a text column. *)
NullText == "<null>"

TimeOffTypes == {"vacation", "sick", "personal", "other"}

(* value || null *)
OrNull(text) == IF text \in {Absent, ""} THEN NullText ELSE text

(* INSERT INTO time_off_requests: request_date is the clock, processed_date null. *)
createTimeOffRequest(id, request, requestDate) ==
  [id |-> id, employee_id |-> request.employeeId,
   start_date |-> request.startDate, end_date |-> request.endDate,
   start_time |-> OrNull(request.startTime), end_time |-> OrNull(request.endTime),
   is_partial_day |-> IF request.isPartialDay THEN 1 ELSE 0,
   type |-> request.type, reason |-> OrNull(request.reason),
   request_date |-> requestDate,
   status |-> IF request.status \in {Absent, ""} THEN "pending" ELSE request.status,
   admin_response |-> OrNull(request.adminResponse),
   processed_date |-> Null, processed_by |-> OrNull(request.processedBy)]

(* The columns updateTimeOffRequest collects from the defined keys; a       *)
(* defined processedBy also stamps processed_date with the clock.           *)
UpdatedRequest(row, request, at) ==
  [row EXCEPT
     !.start_date = IF "startDate" \in request.has THEN request.startDate ELSE @,
     !.end_date = IF "endDate" \in request.has THEN request.endDate ELSE @,
     !.type = IF "type" \in request.has THEN request.type ELSE @,
     !.reason = IF "reason" \in request.has THEN request.reason ELSE @,
     !.status = IF "status" \in request.has THEN request.status ELSE @,
     !.admin_response = IF "adminResponse" \in request.has THEN request.adminResponse ELSE @,
     !.processed_by = IF "processedBy" \in request.has THEN request.processedBy ELSE @,
     !.processed_date = IF "processedBy" \in request.has THEN at ELSE @]

(* The CHECKs of the status and type columns fail the UPDATE. *)
RequestChecksPass(request) ==
  /\ "status" \in request.has => request.status \in CorrectionStatuses
  /\ "type" \in request.has => request.type \in TimeOffTypes

(* UPDATE time_off_requests SET ... WHERE id = ? *)
updateTimeOffRequest(rows, id, request, at) ==
  IF ~RequestChecksPass(request) THEN rows
  ELSE {IF row.id = id THEN UpdatedRequest(row, request, at) ELSE row : row \in rows}

(* DELETE FROM time_off_requests WHERE id = ? *)
deleteTimeOffRequest(rows, id) == {row \in rows : row.id # id}

(* SELECT * FROM time_off_requests WHERE (start_date <= endDate AND          *)
(* end_date >= startDate) OR (start_date >= startDate AND start_date <=      *)
(* endDate): the rows of the response (ORDER BY start_date ASC orders them). *)
getTimeOffRequestsInRange(rows, startDate, endDate) ==
  {row \in rows : \/ row.start_date <= endDate /\ row.end_date >= startDate
                  \/ row.start_date >= startDate /\ row.start_date <= endDate}

(* MySqlStorage: and(gte(startDate, startDate), lte(endDate, endDate)). *)
MySqlStorage_getTimeOffRequestsInRange(rows, startDate, endDate) ==
  {row \in rows : row.start_date >= startDate /\ row.end_date <= endDate}

(* ----------------------- getAdminStats ------------------------------- *)
(* today.setHours(0, 0, 0, 0): the local midnight before a time; the clock  *)
(* of the model counts from a local midnight.                               *)
startOfDay(t) == (t \div MsPerDay) * MsPerDay

(* SqliteStorage: SELECT COUNT(DISTINCT employee_id) FROM punches WHERE      *)
(* timestamp >= todayStart AND timestamp < todayEnd AND punch_type = 'in'.   *)
clockedInToday(rows, at) ==
  Cardinality({row.employee_id : row \in
     {r \in rows : /\ r.timestamp >= startOfDay(at)
                   /\ r.timestamp < startOfDay(at) + MsPerDay
                   /\ r.punch_type = "in"}})

(* SELECT the count of rows FROM punches WHERE timestamp >= todayStart AND timestamp < todayEnd. *)
punchesToday(rows, at) ==
  Cardinality({r \in rows : r.timestamp >= startOfDay(at) /\ r.timestamp < startOfDay(at) + MsPerDay})

(* SELECT the count of rows FROM corrections WHERE status = 'pending'. *)
pendingCorrections(table) == Cardinality({c \in table : c.status = "pending"})

(* MySqlStorage: today's punches are those with today <= timestamp <=        *)
(* tomorrow, newest first; the first punch met of each employee is the       *)
(* employee's status, and the statistic counts the statuses that are in.     *)
MySqlStorage_todayPunches(rows, at) ==
  {r \in rows : r.timestamp >= startOfDay(at) /\ r.timestamp <= startOfDay(at) + MsPerDay}

MySqlStorage_clockedInToday(todayPunches) ==
  Cardinality({e \in Staff :
     \E i \in 1..Len(todayPunches) :
        /\ todayPunches[i].employee_id = e
        /\ todayPunches[i].punch_type = "in"
        /\ \A j \in 1..(i - 1) : todayPunches[j].employee_id # e})

(* ------------------------------- state -------------------------------- *)
Init ==
  /\ now = 0
  /\ punches = {}
  /\ nextId = 1
  /\ settings = DefaultSettings
  /\ req = [r \in Slots |-> IdleSlot]
  /\ lastPunchQuery = [sess |-> NoSession, lastPunch |-> NoPunch]
  /\ reply = NoReply
  /\ dashboard = NoDashboard
  /\ corrections = {}
  /\ timeOffRequests = {}
  /\ calendar = NoCalendar
  /\ adminStats = NoStats
  /\ sync = NoSync
  /\ replay = NoReplay
  /\ kiosk = NoKiosk

(* A new request takes the first idle slot (slots are interchangeable). *)
Free(r) == req[r].pc = "idle" /\ \A q \in Slots : q < r => req[q].pc # "idle"

Tick ==
  /\ now < MaxNow
  /\ now' = now + TickMs
  /\ UNCHANGED <<punches, nextId, settings, req, lastPunchQuery, reply, beyondLedger>>

(* ------------------- POST /api/employee/punch ------------------------- *)
(* createPunch up to its first callback: the id and the timestamp are taken *)
(* and the duplicate SELECT is issued.                                      *)
CreatePunchIssued(slot, validatedData) ==
  [slot EXCEPT !.pc = "get", !.punch = validatedData, !.id = nextId, !.timestamp = now]

Answer(slot, err, status, message) ==
  [NoReply EXCEPT !.route = slot.route, !.via = slot.via, !.sess = slot.sess,
                  !.err = err, !.status = status, !.message = message]

FailureMessage(route) ==
  IF route = "manual" THEN "Failed to create manual punch" ELSE "Failed to create punch"

PostEmployeePunch(r, sess, body, via, loc, seen) ==
  LET slot == [IdleSlot EXCEPT !.route = "punch", !.via = via, !.sess = sess,
                               !.loc = loc, !.seen = seen]
      punchData == [employeeId |-> sess, punchType |-> body.punchType,
                    latitude |-> body.latitude, longitude |-> body.longitude,
                    ipAddress |-> IpAddress, flagged |-> body.flagged]
  IN /\ Free(r)
     /\ IF sess = NoSession
        THEN /\ reply' = Answer(slot, "auth", 401, "Not authenticated")
             /\ UNCHANGED <<req, nextId>>
        ELSE IF ~insertPunchSchema(punchData)
        THEN /\ reply' = Answer(slot, "validation", 400, FailureMessage("punch"))
             /\ UNCHANGED <<req, nextId>>
        ELSE /\ nextId <= MaxIds
             /\ req' = [req EXCEPT ![r] = CreatePunchIssued(slot, punchData)]
             /\ nextId' = nextId + 1
             /\ UNCHANGED reply
     /\ UNCHANGED <<now, punches, settings, lastPunchQuery, beyondLedger>>

(* The dashboard's clock button: locate, flag, choose the type, post. *)
HandleClockToggle(r, e, loc) ==
  /\ lastPunchQuery.sess = e
  /\ PostEmployeePunch(r, e,
        [punchType |-> IF isCurrentlyClockedIn(lastPunchQuery.lastPunch) THEN "out" ELSE "in",
         latitude |-> loc,
         longitude |-> IF loc = Null THEN Null ELSE CentreLon,
         flagged |-> ToggleFlagged(loc, settings)],
        "toggle", loc, settings)

(* Any other client of the route: no coordinates, no flagged key. *)
PostPunchDirect(r, sess, punchType) ==
  PostEmployeePunch(r, sess,
    [punchType |-> punchType, latitude |-> Null, longitude |-> Null, flagged |-> FALSE],
    "direct", Null, DefaultSettings)

(* ------------------- POST /api/admin/punches/manual ------------------- *)
ManualPunch(r, sess, employeeId, timestamp, punchType) ==
  LET slot == [IdleSlot EXCEPT !.route = "manual", !.via = "admin", !.sess = sess,
                               !.supplied = timestamp]
      punchData == [employeeId |-> employeeId, punchType |-> punchType,
                    latitude |-> Null, longitude |-> Null,
                    ipAddress |-> IpAddress, flagged |-> FALSE]
  IN /\ Free(r)
     /\ IF requireAdmin(sess) # 0
        THEN /\ reply' = Answer(slot, "auth", requireAdmin(sess),
                     IF sess = NoSession THEN "Not authenticated" ELSE "Admin access required")
             /\ UNCHANGED <<req, nextId>>
        ELSE IF ~insertPunchSchema(punchData)
        THEN /\ reply' = Answer(slot, "validation", 400, FailureMessage("manual"))
             /\ UNCHANGED <<req, nextId>>
        ELSE /\ nextId <= MaxIds
             /\ req' = [req EXCEPT ![r] = CreatePunchIssued(slot, punchData)]
             /\ nextId' = nextId + 1
             /\ UNCHANGED reply
     /\ UNCHANGED <<now, punches, settings, lastPunchQuery, beyondLedger>>

(* ------------------- createPunch: the two callbacks ------------------- *)
(* Callback of the duplicate SELECT: reject (the route's catch answers), or *)
(* issue the INSERT.                                                        *)
DuplicateCheck(r) ==
  /\ req[r].pc = "get"
  /\ IF RecentDuplicates(punches, req[r].punch.employeeId, req[r].punch.punchType,
                         recentTimeThreshold(req[r].timestamp)) # {}
     THEN /\ reply' = Answer(req[r], "duplicate", 400, FailureMessage(req[r].route))
          /\ req' = [req EXCEPT ![r] = IdleSlot]
     ELSE /\ req' = [req EXCEPT ![r].pc = "run"]
          /\ UNCHANGED reply
  /\ UNCHANGED <<now, punches, nextId, settings, lastPunchQuery, beyondLedger>>

Created(slot) ==
  [Answer(slot, "none", 200, "") EXCEPT !.id = slot.id]

(* Callback of the INSERT: the row is in the ledger and createPunch resolves. *)
(* The manual route answers at once; the employee route first looks the       *)
(* employee up for the external sync.                                         *)
InsertPunch(r) ==
  /\ req[r].pc = "run"
  /\ punches' = punches \cup {InsertedRow(req[r].id, req[r].punch, req[r].timestamp)}
  /\ IF req[r].route = "manual"
     THEN /\ reply' = Created(req[r])
          /\ req' = [req EXCEPT ![r] = IdleSlot]
     ELSE /\ req' = [req EXCEPT ![r].pc = "created"]
          /\ UNCHANGED reply
  /\ UNCHANGED <<now, nextId, settings, lastPunchQuery, beyondLedger>>

(* Rest of the employee route: getEmployee, the fire-and-forget sync, res.json. *)
RespondPunch(r) ==
  /\ req[r].pc = "created"
  /\ reply' = Created(req[r])
  /\ req' = [req EXCEPT ![r] = IdleSlot]
  /\ UNCHANGED <<now, punches, nextId, settings, lastPunchQuery, beyondLedger>>

(* ------------------- GET /api/employee/last-punch --------------------- *)
(* The response is what the dashboard of that employee keeps as lastPunchData. *)
FetchLastPunch(e) ==
  /\ \E lastPunch \in getLastPunchByEmployee(punches, e) :
       lastPunchQuery' = [sess |-> e, lastPunch |-> lastPunch]
  /\ UNCHANGED <<now, punches, nextId, settings, req, reply, beyondLedger>>

(* ------------------- admin routes on the ledger ----------------------- *)
(* PUT /api/admin/punches/:id builds updateData from the truthy timestamp   *)
(* and punchType and from a defined flagged.                                *)
UpdateData(body) ==
  [NoUpdate EXCEPT
     !.has = {f \in body.has \cap {"timestamp", "punchType", "flagged"} :
                (f = "punchType") => body.punchType # ""},
     !.timestamp = IF "timestamp" \in body.has THEN body.timestamp ELSE @,
     !.punchType = IF "punchType" \in body.has /\ body.punchType # "" THEN body.punchType ELSE @,
     !.flagged = IF "flagged" \in body.has THEN body.flagged ELSE @]

TimestampOnly(t) == [NoUpdate EXCEPT !.has = {"timestamp"}, !.timestamp = t]

(* The timestamps an admin edits a punch to: the earliest, an inner and the *)
(* latest value of the wall clock.                                          *)
EditTimes == {0, TickMs, MaxNow}

UpdateBodies ==
  {TimestampOnly(t) : t \in EditTimes}
  \cup {[NoUpdate EXCEPT !.has = {"punchType"}, !.punchType = "out"]}
  \cup {[NoUpdate EXCEPT !.has = {"flagged"}, !.flagged = TRUE]}
  \cup {NoUpdate}

AdminRefusal(route, sess) ==
  [NoReply EXCEPT !.route = route, !.sess = sess, !.err = "auth", !.status = requireAdmin(sess),
     !.message = IF sess = NoSession THEN "Not authenticated" ELSE "Admin access required"]

AdminUpdatePunch(sess, id, body) ==
  /\ IF requireAdmin(sess) # 0
     THEN /\ reply' = AdminRefusal("update", sess)
          /\ UNCHANGED punches
     ELSE /\ punches' = updatePunch(punches, id, UpdateData(body))
          /\ reply' = IF \E row \in punches' : row.id = id
                      THEN [NoReply EXCEPT !.route = "update", !.sess = sess, !.status = 200]
                      ELSE [NoReply EXCEPT !.route = "update", !.sess = sess, !.status = 404,
                              !.err = "notfound", !.message = "Punch not found"]
  /\ UNCHANGED <<now, nextId, settings, req, lastPunchQuery, beyondLedger>>

AdminDeletePunch(sess, id) ==
  /\ IF requireAdmin(sess) # 0
     THEN /\ reply' = AdminRefusal("delete", sess)
          /\ UNCHANGED punches
     ELSE /\ punches' = deletePunch(punches, id)
          /\ reply' = IF punches' # punches
                      THEN [NoReply EXCEPT !.route = "delete", !.sess = sess, !.status = 200,
                              !.message = "Punch deleted successfully"]
                      ELSE [NoReply EXCEPT !.route = "delete", !.sess = sess, !.status = 404,
                              !.err = "notfound", !.message = "Punch not found"]
  /\ UNCHANGED <<now, nextId, settings, req, lastPunchQuery, beyondLedger>>

(* PUT /api/admin/settings *)
AdminUpdateSettings(sess, s) ==
  /\ IF requireAdmin(sess) # 0
     THEN /\ reply' = AdminRefusal("settings", sess)
          /\ UNCHANGED settings
     ELSE /\ settings' = s
          /\ reply' = [NoReply EXCEPT !.route = "settings", !.sess = sess, !.status = 200]
  /\ UNCHANGED <<now, punches, nextId, req, lastPunchQuery, beyondLedger>>

(* ---------------- the ledger under concurrent creation ---------------- *)
ManualTimes == {0}

Next ==
  \/ Tick
  \/ \E r \in Slots, sess \in Sessions, punchType \in {"in", "out", "break"} :
        PostPunchDirect(r, sess, punchType)
  \/ \E r \in Slots, sess \in Sessions, e \in {"emp"}, t \in ManualTimes, punchType \in {"in", "out"} :
        ManualPunch(r, sess, e, t, punchType)
  \/ \E r \in Slots : DuplicateCheck(r)
  \/ \E r \in Slots : InsertPunch(r)
  \/ \E r \in Slots : RespondPunch(r)

Spec == Init /\ [][Next]_vars

(* ---------------- the ledger under admin edits ------------------------ *)
NextAdmin ==
  \/ \E sess \in Sessions, e \in {"emp"}, t \in ManualTimes, punchType \in {"in", "out"} :
        ManualPunch(1, sess, e, t, punchType)
  \/ DuplicateCheck(1)
  \/ InsertPunch(1)
  \/ \E id \in 1..MaxIds, body \in UpdateBodies : AdminUpdatePunch("adm", id, body)
  \/ \E sess \in Sessions \ {"adm"}, id \in 1..MaxIds : AdminUpdatePunch(sess, id, TimestampOnly(MaxNow))
  \/ \E sess \in Sessions, id \in 1..MaxIds : AdminDeletePunch(sess, id)

SpecAdmin == Init /\ [][NextAdmin]_vars

(* ---------------- the dashboard's clock button ------------------------ *)
NextToggle ==
  \/ Tick
  \/ \E e \in {"emp"} : FetchLastPunch(e)
  \/ \E e \in {"emp"}, loc \in DevicePositions : HandleClockToggle(1, e, loc)
  \/ DuplicateCheck(1)
  \/ InsertPunch(1)
  \/ RespondPunch(1)
  \/ \E sess \in {"adm"}, s \in SettingsChoices : AdminUpdateSettings(sess, s)

SpecToggle == Init /\ [][NextToggle]_vars

(* ---------------- the dashboard's hours and break time --------------- *)
(* The employee's punches of the week, as the punches query answers them    *)
(* (newest first), grow by one punch that is not older than the newest.     *)
PunchListed(punchType, timestamp) ==
  /\ dashboard.phase = "loading"
  /\ Len(dashboard.weeklyPunches) < MaxWeekPunches
  /\ dashboard.weeklyPunches # <<>> => timestamp >= Head(dashboard.weeklyPunches).timestamp
  /\ dashboard' = [dashboard EXCEPT !.weeklyPunches =
                      <<[punchType |-> punchType, timestamp |-> timestamp]>> \o @]
  /\ UNCHANGED <<now, punches, nextId, settings, req, lastPunchQuery, reply>>
  /\ UNCHANGED <<corrections, timeOffRequests, calendar, adminStats, beyondWorkflows>>

(* The dashboard renders: both memos are evaluated at the clock value at. *)
RenderDashboard(isClockedIn, at) ==
  /\ dashboard.phase = "loading"
  /\ LET today == HoursWorkedAndBreakTime(todayPunchesData(dashboard.weeklyPunches, at), isClockedIn, at)
     IN dashboard' = [dashboard EXCEPT !.phase = "shown",
                                       !.isCurrentlyClockedIn = isClockedIn,
                                       !.at = at,
                                       !.hoursWorked = today.hoursWorked,
                                       !.breakTime = today.breakTime,
                                       !.weeklyHours = weeklyHours(dashboard.weeklyPunches, isClockedIn, at)]
  /\ UNCHANGED <<now, punches, nextId, settings, req, lastPunchQuery, reply>>
  /\ UNCHANGED <<corrections, timeOffRequests, calendar, adminStats, beyondWorkflows>>

NextDashboard ==
  \/ \E punchType \in {"in", "out"}, timestamp \in PunchTimes : PunchListed(punchType, timestamp)
  \/ \E isClockedIn \in BOOLEAN, at \in RenderTimes : RenderDashboard(isClockedIn, at)

SpecDashboard == Init /\ [][NextDashboard]_vars

(* ---------------- correction requests and their decision ------------- *)
(* POST /api/employee/corrections: the note is req.body.reason || req.body.note, *)
(* the status is always pending; insertCorrectionSchema wants a string note.     *)
CorrectionNote(body) == IF body.reason \notin {Absent, ""} THEN body.reason ELSE body.note

insertCorrectionSchema(correctionData) ==
  correctionData.note # Absent /\ correctionData.status \in CorrectionStatuses

RequestCorrection(sess, id, body) ==
  LET correctionData == [employeeId |-> sess, punchId |-> body.punchId, date |-> now,
                         note |-> CorrectionNote(body), status |-> "pending"]
  IN /\ IF sess = NoSession
        THEN /\ reply' = [NoReply EXCEPT !.route = "correction", !.sess = sess, !.err = "auth",
                            !.status = 401, !.message = "Not authenticated"]
             /\ UNCHANGED corrections
        ELSE IF ~insertCorrectionSchema(correctionData)
        THEN /\ reply' = [NoReply EXCEPT !.route = "correction", !.sess = sess, !.err = "validation",
                            !.status = 400, !.message = "Failed to create correction request"]
             /\ UNCHANGED corrections
        ELSE /\ Cardinality(corrections) < MaxCorrections
             /\ id \notin {row.id : row \in corrections}
             /\ corrections' = corrections \cup {createCorrection(id, correctionData)}
             /\ reply' = [NoReply EXCEPT !.route = "correction", !.sess = sess, !.status = 200]
     /\ UNCHANGED <<now, punches, nextId, settings, req, lastPunchQuery>>
     /\ UNCHANGED <<dashboard, timeOffRequests, calendar, adminStats, beyondWorkflows>>

(* PUT /api/admin/corrections/:id: requireAdmin, then updateCorrection(id, req.body). *)
DecideCorrection(sess, id, body) ==
  /\ IF requireAdmin(sess) # 0
     THEN /\ reply' = AdminRefusal("decide", sess)
          /\ UNCHANGED <<punches, corrections>>
     ELSE /\ punches' = updateCorrection(Database, id, body).punches
          /\ corrections' = updateCorrection(Database, id, body).corrections
          /\ reply' = IF CorrectionResolved(Database, id, body)
                      THEN [NoReply EXCEPT !.route = "decide", !.sess = sess, !.status = 200]
                      ELSE [NoReply EXCEPT !.route = "decide", !.sess = sess, !.status = 404,
                              !.err = "notfound", !.message = "Correction not found"]
  /\ UNCHANGED <<now, nextId, settings, req, lastPunchQuery>>
  /\ UNCHANGED <<dashboard, timeOffRequests, calendar, adminStats, beyondWorkflows>>

(* The admin page: approve sends a fixed note; the deny button is disabled  *)
(* while the note typed in the dialog is blank.                             *)
trim(text) == IF text = "   " THEN "" ELSE text

handleCorrectionAction(status) == [status |-> status, note |-> "Approved by admin"]

handleDenyWithNote(adminNote) ==
  [status |-> "denied", note |-> IF adminNote = "" THEN "Denied by admin" ELSE adminNote]

AdminNotes == {"", "   ", "Duplicate of an earlier request"}

PageBodies ==
  {handleCorrectionAction("approved")}
  \cup {handleDenyWithNote(adminNote) : adminNote \in {n \in AdminNotes : trim(n) # ""}}

(* Bodies sent to the route by any other client: it forwards req.body as   *)
(* it came, with or without a status, with or without a note.               *)
DirectBodies ==
  [status : {"denied"}, note : AdminNotes \cup {Absent}]
  \cup [status : {"approved", "pending", "cancelled", Absent}, note : {Absent}]
  \cup [status : {Absent}, note : {"Duplicate of an earlier request"}]

DecideBodies == PageBodies \cup DirectBodies

RequestBodies ==
  [punchId : {Null, 1}, reason : {Absent, "Forgot to clock out"}, note : {Absent, ""}]

NextCorrections ==
  \/ ManualPunch(1, "adm", "emp", 0, "in")
  \/ DuplicateCheck(1)
  \/ InsertPunch(1)
  \/ \E sess \in {"emp", NoSession}, id \in CorrectionIds, body \in RequestBodies :
        RequestCorrection(sess, id, body)
  \/ \E id \in CorrectionIds, body \in DecideBodies : DecideCorrection("adm", id, body)
  \/ \E sess \in Sessions \ {"adm"}, id \in CorrectionIds :
        DecideCorrection(sess, id, handleCorrectionAction("approved"))

SpecCorrections == Init /\ [][NextCorrections]_vars

(* ---------------------- time-off requests: routes -------------------- *)
(* insertTimeOffRequestSchema.parse({...req.body, employeeId}): the dates    *)
(* and a type of the enum are required, the times are optional strings,      *)
(* isPartialDay defaults to false.                                           *)
NoRequestBody ==
  [startDate |-> 0, endDate |-> 0, has |-> {}, isPartialDay |-> FALSE,
   startTime |-> Absent, endTime |-> Absent, type |-> Absent, reason |-> Absent,
   status |-> Absent, adminResponse |-> Absent, processedBy |-> Absent]

insertTimeOffRequestSchema(data) ==
  /\ {"startDate", "endDate"} \subseteq data.has
  /\ data.type \in TimeOffTypes
  /\ data.status \in CorrectionStatuses \cup {Absent}

ParsedRequest(body, employeeId) ==
  [startDate |-> body.startDate, endDate |-> body.endDate,
   isPartialDay |-> IF "isPartialDay" \in body.has THEN body.isPartialDay ELSE FALSE,
   startTime |-> body.startTime, endTime |-> body.endTime, type |-> body.type,
   reason |-> body.reason, status |-> body.status, adminResponse |-> body.adminResponse,
   processedBy |-> body.processedBy, employeeId |-> employeeId]

(* POST /api/time-off *)
RequestTimeOff(sess, id, body) ==
  /\ IF sess = NoSession
     THEN /\ reply' = [NoReply EXCEPT !.route = "time-off", !.sess = sess, !.err = "auth",
                         !.status = 401, !.message = "Not authenticated"]
          /\ UNCHANGED timeOffRequests
     ELSE IF ~insertTimeOffRequestSchema(body)
     THEN /\ reply' = [NoReply EXCEPT !.route = "time-off", !.sess = sess, !.err = "validation",
                         !.status = 400, !.message = "Invalid request data"]
          /\ UNCHANGED timeOffRequests
     ELSE /\ Cardinality(timeOffRequests) < MaxRequests
          /\ id \notin {row.id : row \in timeOffRequests}
          /\ timeOffRequests' =
               timeOffRequests \cup {createTimeOffRequest(id, ParsedRequest(body, sess), now)}
          /\ reply' = [NoReply EXCEPT !.route = "time-off", !.sess = sess, !.status = 200]
  /\ UNCHANGED <<now, punches, nextId, settings, req, lastPunchQuery>>
  /\ UNCHANGED <<dashboard, corrections, calendar, adminStats, beyondWorkflows>>

(* PATCH /api/admin/time-off/:id: updateData = {...req.body, processedBy: employeeId}. *)
UpdateTimeOff(sess, id, body) ==
  /\ IF sess = NoSession
     THEN /\ reply' = [NoReply EXCEPT !.route = "process", !.sess = sess, !.err = "auth",
                         !.status = 401, !.message = "Not authenticated"]
          /\ UNCHANGED timeOffRequests
     ELSE IF ~getEmployee(sess).isAdmin
     THEN /\ reply' = [NoReply EXCEPT !.route = "process", !.sess = sess, !.err = "auth",
                         !.status = 403, !.message = "Admin access required"]
          /\ UNCHANGED timeOffRequests
     ELSE LET updateData == [body EXCEPT !.has = @ \cup {"processedBy"}, !.processedBy = sess]
          IN /\ timeOffRequests' = updateTimeOffRequest(timeOffRequests, id, updateData, now)
             /\ reply' = IF RequestChecksPass(updateData) /\ \E row \in timeOffRequests : row.id = id
                         THEN [NoReply EXCEPT !.route = "process", !.sess = sess, !.status = 200]
                         ELSE [NoReply EXCEPT !.route = "process", !.sess = sess, !.status = 404,
                                 !.err = "notfound", !.message = "Request not found"]
  /\ UNCHANGED <<now, punches, nextId, settings, req, lastPunchQuery>>
  /\ UNCHANGED <<dashboard, corrections, calendar, adminStats, beyondWorkflows>>

(* GET /api/time-off/calendar?startDate=&endDate= on the configured back end. *)
GetCalendar(sess, backend, startDate, endDate) ==
  /\ IF sess = NoSession
     THEN /\ reply' = [NoReply EXCEPT !.route = "calendar", !.sess = sess, !.err = "auth",
                         !.status = 401, !.message = "Not authenticated"]
          /\ UNCHANGED calendar
     ELSE /\ calendar' =
               [backend |-> backend, startDate |-> startDate, endDate |-> endDate,
                requests |->
                  {row.id : row \in
                     IF backend = "mysql"
                     THEN MySqlStorage_getTimeOffRequestsInRange(timeOffRequests, startDate, endDate)
                     ELSE getTimeOffRequestsInRange(timeOffRequests, startDate, endDate)}]
          /\ reply' = [NoReply EXCEPT !.route = "calendar", !.sess = sess, !.status = 200]
  /\ UNCHANGED <<now, punches, nextId, settings, req, lastPunchQuery>>
  /\ UNCHANGED <<dashboard, corrections, timeOffRequests, adminStats, beyondWorkflows>>

WholeDays(startDate, endDate) ==
  [NoRequestBody EXCEPT !.has = {"startDate", "endDate"}, !.startDate = startDate,
                        !.endDate = endDate, !.type = "vacation"]

PartialDay(startDate, endDate, startTime, endTime) ==
  [WholeDays(startDate, endDate) EXCEPT !.has = @ \cup {"isPartialDay"}, !.isPartialDay = TRUE,
                                        !.startTime = startTime, !.endTime = endTime,
                                        !.type = "personal"]

TimeOffBodies ==
  {WholeDays(10, 12), WholeDays(11, 11), WholeDays(12, 10),
   PartialDay(11, 11, "09:00", "12:30"), PartialDay(11, 11, Absent, Absent),
   PartialDay(10, 12, "09:00", "12:30"),
   [WholeDays(10, 12) EXCEPT !.type = "holiday"]}

(* The forms an employee submits: whole days, a partial day with its times, *)
(* a partial day without them, and a type outside the enum.                 *)
SubmittedBodies ==
  {WholeDays(11, 11), PartialDay(11, 11, "09:00", "12:30"), PartialDay(11, 11, Absent, Absent),
   [WholeDays(10, 12) EXCEPT !.type = "holiday"]}

NoRequestUpdate ==
  [has |-> {}, startDate |-> 0, endDate |-> 0, type |-> Absent, reason |-> Absent,
   status |-> Absent, adminResponse |-> Absent, processedBy |-> Absent]

ProcessBodies ==
  {[NoRequestUpdate EXCEPT !.has = {"status"}, !.status = status] :
     status \in {"approved", "denied"}}
  \cup {[NoRequestUpdate EXCEPT !.has = {"startDate", "endDate"}, !.startDate = 10, !.endDate = 12],
        NoRequestUpdate}

NextTimeOff ==
  \/ Tick
  \/ \E sess \in {"emp", NoSession}, id \in RequestIds, body \in SubmittedBodies :
        RequestTimeOff(sess, id, body)
  \/ \E id \in RequestIds, body \in ProcessBodies : UpdateTimeOff("adm", id, body)
  \/ \E sess \in Sessions \ {"adm"}, id \in RequestIds :
        UpdateTimeOff(sess, id, [NoRequestUpdate EXCEPT !.has = {"status"}, !.status = "approved"])

SpecTimeOff == Init /\ [][NextTimeOff]_vars

(* Bodies of POST /api/time-off that also carry the keys the schema keeps    *)
(* beside the form's: status, adminResponse, processedBy.                   *)
CreatingBodies ==
  {WholeDays(11, 11),
   [WholeDays(11, 11) EXCEPT !.status = "approved"],
   [WholeDays(11, 11) EXCEPT !.status = "denied", !.adminResponse = "no", !.processedBy = "adm"],
   [WholeDays(11, 11) EXCEPT !.adminResponse = "ok"],
   [WholeDays(11, 11) EXCEPT !.status = "granted"]}

NextCreating ==
  \/ Tick
  \/ \E sess \in {"emp", NoSession}, id \in RequestIds, body \in CreatingBodies :
        RequestTimeOff(sess, id, body)
  \/ \E sess \in Staff, id \in RequestIds, body \in ProcessBodies : UpdateTimeOff(sess, id, body)

SpecCreating == Init /\ [][NextCreating]_vars

(* DELETE /api/time-off/:id: a session is all the route asks for; the      *)
(* answer is 404 when the DELETE changed no row.                            *)
DeleteTimeOff(sess, id) ==
  /\ IF sess = NoSession
     THEN /\ reply' = [NoReply EXCEPT !.route = "delete-time-off", !.sess = sess, !.err = "auth",
                         !.status = 401, !.message = "Not authenticated"]
          /\ UNCHANGED timeOffRequests
     ELSE /\ timeOffRequests' = deleteTimeOffRequest(timeOffRequests, id)
          /\ reply' = IF \E row \in timeOffRequests : row.id = id
                      THEN [NoReply EXCEPT !.route = "delete-time-off", !.sess = sess, !.status = 200,
                              !.message = "Request deleted successfully"]
                      ELSE [NoReply EXCEPT !.route = "delete-time-off", !.sess = sess, !.status = 404,
                              !.err = "notfound", !.message = "Request not found"]
  /\ UNCHANGED <<now, punches, nextId, settings, req, lastPunchQuery>>
  /\ UNCHANGED <<dashboard, corrections, calendar, adminStats, beyondWorkflows>>

(* Requests of both employees, decided or not, and deletes under every session. *)
NextDeleting ==
  \/ Tick
  \/ \E sess \in Staff, id \in RequestIds, body \in SubmittedBodies : RequestTimeOff(sess, id, body)
  \/ \E id \in RequestIds, status \in {"approved", "denied"} :
        UpdateTimeOff("adm", id, [NoRequestUpdate EXCEPT !.has = {"status"}, !.status = status])
  \/ \E sess \in Sessions, id \in RequestIds : DeleteTimeOff(sess, id)

SpecDeleting == Init /\ [][NextDeleting]_vars

(* The calendar asks for a range that ends no earlier than it starts. *)
QueryRanges == {range \in QueryDates \X QueryDates : range[1] <= range[2]}

NextCalendar ==
  \/ \E sess \in {"emp"}, id \in RequestIds, body \in TimeOffBodies :
        RequestTimeOff(sess, id, body)
  \/ \E sess \in {"emp", NoSession}, backend \in Backends, range \in QueryRanges :
        GetCalendar(sess, backend, range[1], range[2])

SpecCalendar == Init /\ [][NextCalendar]_vars

(* ------------------------- kiosk auto-logout -------------------------- *)
(* The dashboard is mounted after the PIN login, on the configured store. *)
KioskOpens(store) ==
  /\ kiosk.store = "none"
  /\ kiosk' = [kiosk EXCEPT !.store = store]
  /\ UNCHANGED <<now, punches, nextId, settings, req, lastPunchQuery, reply>>
  /\ UNCHANGED <<dashboard, corrections, timeOffRequests, calendar, adminStats, sync, replay>>

Mounted == kiosk.store # "none" /\ kiosk.loggedOutBy = "none"

(* handleClockToggle up to its await: the clock button is rendered while    *)
(* logoutCountdown is 0 and enabled while no punch mutation is pending; the *)
(* punch type is the opposite of the last punch the render knew.            *)
ClockToggle ==
  /\ Mounted
  /\ kiosk.logoutCountdown = 0
  /\ ~\E tap \in kiosk.taps : tap.stage = "posting"
  /\ kiosk.nextTap \in TapIds
  /\ kiosk' = [kiosk EXCEPT
                 !.taps = @ \cup {[id |-> kiosk.nextTap, stage |-> "locating",
                                   punchType |-> IF kiosk.lastPunch = "in" THEN "out" ELSE "in"]},
                 !.nextTap = @ + 1]
  /\ UNCHANGED <<now, punches, nextId, settings, req, lastPunchQuery, reply>>
  /\ UNCHANGED <<dashboard, corrections, timeOffRequests, calendar, adminStats, sync, replay>>

(* getCurrentLocation settles (either way) and punchMutation.mutate sends the POST. *)
Located(id) ==
  /\ Mounted
  /\ \E tap \in kiosk.taps :
        /\ tap.id = id /\ tap.stage = "locating"
        /\ kiosk' = [kiosk EXCEPT !.taps = (@ \ {tap}) \cup {[tap EXCEPT !.stage = "posting"]}]
  /\ UNCHANGED <<now, punches, nextId, settings, req, lastPunchQuery, reply>>
  /\ UNCHANGED <<dashboard, corrections, timeOffRequests, calendar, adminStats, sync, replay>>

(* The answer of POST /api/employee/punch, all within one 30 s window: the  *)
(* SQLite store rejects a type it already holds, the MySQL store inserts.   *)
PunchAnswer(store, punchType, committed) ==
  IF store = "sqlite" /\ punchType \in committed THEN "error" ELSE "success"

(* punchMutation.onSuccess / onError. On success: setLogoutCountdown(5), a   *)
(* new interval, setCountdownInterval(interval).                            *)
PunchSettled(id) ==
  /\ Mounted
  /\ \E tap \in kiosk.taps :
        /\ tap.id = id /\ tap.stage = "posting"
        /\ IF PunchAnswer(kiosk.store, tap.punchType, kiosk.committed) = "success"
           THEN kiosk' = [kiosk EXCEPT !.taps = @ \ {tap},
                                       !.committed = @ \cup {tap.punchType},
                                       !.lastPunch = tap.punchType,
                                       !.logoutCountdown = CountdownFrom,
                                       !.intervals = @ \cup {id},
                                       !.countdownInterval = id,
                                       !.stayChosen = FALSE]
           ELSE kiosk' = [kiosk EXCEPT !.taps = @ \ {tap}]
  /\ UNCHANGED <<now, punches, nextId, settings, req, lastPunchQuery, reply>>
  /\ UNCHANGED <<dashboard, corrections, timeOffRequests, calendar, adminStats, sync, replay>>

(* One firing of an interval: the updater of setLogoutCountdown. *)
CountdownTick(interval) ==
  /\ Mounted
  /\ interval \in kiosk.intervals
  /\ IF kiosk.logoutCountdown <= 1
     THEN kiosk' = [kiosk EXCEPT !.intervals = @ \ {interval}, !.loggedOutBy = "tick",
                                 !.logoutCountdown = 0]
     ELSE kiosk' = [kiosk EXCEPT !.logoutCountdown = @ - 1]
  /\ UNCHANGED <<now, punches, nextId, settings, req, lastPunchQuery, reply>>
  /\ UNCHANGED <<dashboard, corrections, timeOffRequests, calendar, adminStats, sync, replay>>

(* The two buttons are rendered while logoutCountdown > 0. *)
LogOutNow ==
  /\ Mounted
  /\ kiosk.logoutCountdown > 0
  /\ kiosk' = [kiosk EXCEPT !.logoutCountdown = 0, !.loggedOutBy = "button"]
  /\ UNCHANGED <<now, punches, nextId, settings, req, lastPunchQuery, reply>>
  /\ UNCHANGED <<dashboard, corrections, timeOffRequests, calendar, adminStats, sync, replay>>

StayLoggedIn ==
  /\ Mounted
  /\ kiosk.logoutCountdown > 0
  /\ kiosk' = [kiosk EXCEPT !.logoutCountdown = 0,
                            !.intervals = IF kiosk.countdownInterval # 0
                                          THEN @ \ {kiosk.countdownInterval} ELSE @,
                            !.countdownInterval = 0,
                            !.stayChosen = TRUE]
  /\ UNCHANGED <<now, punches, nextId, settings, req, lastPunchQuery, reply>>
  /\ UNCHANGED <<dashboard, corrections, timeOffRequests, calendar, adminStats, sync, replay>>

NextKiosk ==
  \/ \E store \in Backends : KioskOpens(store)
  \/ ClockToggle
  \/ \E id \in TapIds : Located(id)
  \/ \E id \in TapIds : PunchSettled(id)
  \/ \E interval \in TapIds : CountdownTick(interval)
  \/ LogOutNow
  \/ StayLoggedIn

(* setInterval(..., 1000): the browser fires every running interval again   *)
(* and again until clearInterval stops it.                                  *)
SpecKioskFair ==
  /\ Init
  /\ [][NextKiosk]_vars
  /\ \A id \in TapIds : WF_vars(CountdownTick(id))

(* ---------------------- GET /api/admin/stats -------------------------- *)
(* Every employee seeded is active. *)
GetAdminStats(sess, backend) ==
  /\ IF requireAdmin(sess) # 0
     THEN /\ reply' = AdminRefusal("stats", sess)
          /\ UNCHANGED adminStats
     ELSE /\ reply' = [NoReply EXCEPT !.route = "stats", !.sess = sess, !.status = 200]
          /\ IF backend = "mysql"
             THEN \E todayPunches \in OrderByTimestampDesc(MySqlStorage_todayPunches(punches, now)) :
                    adminStats' = [backend |-> backend, activeEmployees |-> Cardinality(Staff),
                                   clockedInToday |-> MySqlStorage_clockedInToday(todayPunches),
                                   punchesToday |-> Len(todayPunches),
                                   pendingCorrections |-> pendingCorrections(corrections)]
             ELSE adminStats' = [backend |-> backend, activeEmployees |-> Cardinality(Staff),
                                 clockedInToday |-> clockedInToday(punches, now),
                                 punchesToday |-> punchesToday(punches, now),
                                 pendingCorrections |-> pendingCorrections(corrections)]
  /\ UNCHANGED <<now, punches, nextId, settings, req, lastPunchQuery>>
  /\ UNCHANGED <<dashboard, corrections, timeOffRequests, calendar, beyondWorkflows>>

(* An admin edit that moves a punch to the evening before. *)
YesterdayEvening == 0 - TickMs

NextStats ==
  \/ Tick
  \/ \E sess \in Staff, punchType \in {"in", "out"} : PostPunchDirect(1, sess, punchType)
  \/ DuplicateCheck(1)
  \/ InsertPunch(1)
  \/ RespondPunch(1)
  \/ \E id \in 1..MaxIds : AdminUpdatePunch("adm", id, TimestampOnly(YesterdayEvening))
  \/ \E sess \in Sessions, backend \in Backends : GetAdminStats(sess, backend)

SpecStats == Init /\ [][NextStats]_vars

(* ------------- POST /api/employee/punch: after the commit ------------- *)
(* MySqlStorage.createPunch: no duplicate query; the row is inserted with   *)
(* the column default CURRENT_TIMESTAMP and read back.                      *)
MySqlPostEmployeePunch(r, sess, punchType) ==
  LET slot == [IdleSlot EXCEPT !.route = "punch", !.via = "direct", !.sess = sess,
                               !.store = "mysql"]
      punchData == [employeeId |-> sess, punchType |-> punchType,
                    latitude |-> Null, longitude |-> Null,
                    ipAddress |-> IpAddress, flagged |-> FALSE]
  IN /\ Free(r)
     /\ IF sess = NoSession
        THEN /\ reply' = Answer(slot, "auth", 401, "Not authenticated")
             /\ UNCHANGED <<req, nextId>>
        ELSE IF ~insertPunchSchema(punchData)
        THEN /\ reply' = Answer(slot, "validation", 400, FailureMessage("punch"))
             /\ UNCHANGED <<req, nextId>>
        ELSE /\ nextId <= MaxIds
             /\ req' = [req EXCEPT ![r] = [slot EXCEPT !.pc = "insert", !.punch = punchData,
                                                        !.id = nextId]]
             /\ nextId' = nextId + 1
             /\ UNCHANGED reply
     /\ UNCHANGED <<now, punches, settings, lastPunchQuery, beyondLedger>>

MySqlInsertPunch(r) ==
  /\ req[r].pc = "insert"
  /\ punches' = punches \cup {InsertedRow(req[r].id, req[r].punch, now)}
  /\ req' = [req EXCEPT ![r].pc = "created", ![r].timestamp = now]
  /\ UNCHANGED <<now, nextId, settings, lastPunchQuery, reply, beyondLedger>>

(* The rest of the route once createPunch has resolved: the employee lookup, *)
(* the sync started in the background when the employee is found and the    *)
(* sync is enabled, then res.json; the catch of the route answers 400 when   *)
(* the lookup rejects.                                                       *)
RespondPunchSynced(r, lookup, enabled) ==
  /\ req[r].pc = "created"
  /\ lookup \in LookupOutcomes(req[r].store)
  /\ IF lookup = "rejects"
     THEN /\ reply' = Answer(req[r], "lookup", 400, FailureMessage(req[r].route))
          /\ UNCHANGED sync
     ELSE /\ reply' = Created(req[r])
          /\ sync' = IF lookup = "row" /\ enabled
                     THEN [state |-> "running", punchId |-> req[r].id, result |-> "none"]
                     ELSE sync
  /\ req' = [req EXCEPT ![r] = IdleSlot]
  /\ UNCHANGED <<now, punches, nextId, settings, lastPunchQuery>>
  /\ UNCHANGED <<dashboard, corrections, timeOffRequests, calendar, adminStats, replay, kiosk>>

(* The .then and .catch of the sync promise only log. *)
SyncSettles(outcome) ==
  /\ sync.state = "running"
  /\ sync' = [sync EXCEPT !.state = "settled", !.result = outcome]
  /\ UNCHANGED <<now, punches, nextId, settings, req, lastPunchQuery, reply>>
  /\ UNCHANGED <<dashboard, corrections, timeOffRequests, calendar, adminStats, replay, kiosk>>

NextSync ==
  \/ Tick
  \/ \E punchType \in {"in", "out"} : PostPunchDirect(1, "emp", punchType)
  \/ DuplicateCheck(1)
  \/ InsertPunch(1)
  \/ \E punchType \in {"in", "out"} : MySqlPostEmployeePunch(1, "emp", punchType)
  \/ MySqlInsertPunch(1)
  \/ \E lookup \in {"row", "undefined", "rejects"}, enabled \in SyncSwitch :
        RespondPunchSynced(1, lookup, enabled)
  \/ \E outcome \in SyncOutcomes : SyncSettles(outcome)

SpecSync == Init /\ [][NextSync]_vars

(* ------------- the same createPunch calls on both stores -------------- *)
(* SqliteStorage.createPunch run to completion: the duplicate query, then    *)
(* the INSERT or the rejection.                                              *)
SqliteStorage_createPunch(rows, id, punch, at) ==
  IF RecentDuplicates(rows, punch.employeeId, punch.punchType, recentTimeThreshold(at)) # {}
  THEN [rows |-> rows, answer |-> "rejected"]
  ELSE [rows |-> rows \cup {InsertedRow(id, punch, at)}, answer |-> "accepted"]

(* MySqlStorage.createPunch: insert, select the row back, return it. *)
MySqlStorage_createPunch(rows, id, punch, at) ==
  [rows |-> rows \cup {InsertedRow(id, punch, at)}, answer |-> "accepted"]

(* The wall clock of the replay moves on. *)
ReplayTick ==
  /\ replay.at < MaxNow
  /\ replay' = [replay EXCEPT !.at = @ + TickMs]
  /\ UNCHANGED <<now, punches, nextId, settings, req, lastPunchQuery, reply>>
  /\ UNCHANGED <<dashboard, corrections, timeOffRequests, calendar, adminStats, sync, kiosk>>

(* One createPunch call, made at the same wall-clock time on each store. *)
ReplayCreatePunch(employeeId, punchType) ==
  LET punch == [employeeId |-> employeeId, punchType |-> punchType,
                latitude |-> Null, longitude |-> Null, ipAddress |-> IpAddress,
                flagged |-> FALSE]
      onSqlite == SqliteStorage_createPunch(replay.sqlite, replay.calls + 1, punch, replay.at)
      onMySql == MySqlStorage_createPunch(replay.mysql, replay.calls + 1, punch, replay.at)
  IN /\ replay.calls < MaxIds + 1
     /\ replay' = [replay EXCEPT !.sqlite = onSqlite.rows, !.mysql = onMySql.rows,
                                 !.calls = @ + 1,
                                 !.answer = <<onSqlite.answer, onMySql.answer>>]
     /\ UNCHANGED <<now, punches, nextId, settings, req, lastPunchQuery, reply>>
     /\ UNCHANGED <<dashboard, corrections, timeOffRequests, calendar, adminStats, sync, kiosk>>

NextReplay ==
  \/ ReplayTick
  \/ \E employeeId \in Staff, punchType \in {"in", "out"} : ReplayCreatePunch(employeeId, punchType)

SpecReplay == Init /\ [][NextReplay]_vars

(* ------------- the duplicate window, one request at a time ------------ *)
NextWindow ==
  \/ Tick
  \/ \E sess \in Staff, punchType \in {"in", "out"} : PostPunchDirect(1, sess, punchType)
  \/ \E punchType \in {"in", "out"} : ManualPunch(1, "adm", "emp", 0, punchType)
  \/ DuplicateCheck(1)
  \/ InsertPunch(1)
  \/ RespondPunch(1)

SpecWindow == Init /\ [][NextWindow]_vars

TypeOK ==
  /\ now \in Times
  /\ nextId \in 1..(MaxIds + 1)
  /\ settings \in SettingsChoices
  /\ \A row \in punches : row.id \in 1..MaxIds /\ row.punch_type \in {"in", "out"}
  /\ \A r \in Slots : req[r].pc \in {"idle", "get", "run", "insert", "created"}

(* ============================= properties ============================= *)
(* The step in which the pending callback of slot r runs. *)
Advances(r, pc) == req[r].pc = pc /\ req'[r] # req[r]

(* A ledger row of the same employee and type, less than 30 s older than *)
(* the clock value createPunch took.                                      *)
InsideWindow(row, slot) ==
  /\ row.employee_id = slot.punch.employeeId
  /\ row.punch_type = slot.punch.punchType
  /\ row.timestamp <= slot.timestamp
  /\ slot.timestamp - row.timestamp < DedupWindowMs

(* C1: a self-service createPunch that finds a punch of the same employee  *)
(* and type less than 30 seconds older than its insert-time clock is       *)
(* rejected as a duplicate, and the ledger stays as it was.                *)
C1_DuplicateRejected ==
  [][\A r \in Slots :
       (/\ Advances(r, "get")
        /\ req[r].route = "punch"
        /\ \E row \in punches : InsideWindow(row, req[r]))
       => (/\ reply'.route = "punch"
           /\ reply'.err = "duplicate"
           /\ reply'.status = 400
           /\ req'[r] = IdleSlot
           /\ punches' = punches)]_vars

C1_Witness ==
  /\ reply.route = "punch"
  /\ reply.err = "duplicate"
  /\ \E row \in punches : row.employee_id = reply.sess /\ now - row.timestamp < DedupWindowMs

(* C2: no ledger state holds two punches of one employee and one type that *)
(* createPunch created less than 30 seconds apart (the duplicate check and  *)
(* the insert act as one step).  Under Spec every timestamp in the ledger   *)
(* is the one createPunch wrote.                                            *)
C2_AtMostOnePerWindow ==
  \A a, b \in punches :
    (a.id # b.id /\ a.employee_id = b.employee_id /\ a.punch_type = b.punch_type)
      => Abs(a.timestamp - b.timestamp) >= DedupWindowMs

(* C3: a manual admin entry is never turned down by the duplicate check.   *)
C3_ManualBypassesDedup ==
  [][\A r \in Slots :
       (Advances(r, "get") /\ req[r].route = "manual")
       => (req'[r].pc = "run" /\ reply'.err # "duplicate")]_vars

(* C4: the row a manual admin entry inserts carries the timestamp the      *)
(* admin supplied.                                                         *)
C4_ManualKeepsSuppliedTimestamp ==
  [][\A r \in Slots :
       (Advances(r, "run") /\ req[r].route = "manual")
       => \E row \in punches' \ punches :
            row.id = req[r].id /\ row.timestamp = req[r].supplied]_vars

(* C5: the answer of the punch route to a duplicate rejection differs from *)
(* its answer to any other failure of punch creation.                      *)
C5_DuplicateAnswerDistinct ==
  [][(/\ reply.route = "punch" /\ reply.err = "validation"
      /\ reply'.route = "punch" /\ reply'.err = "duplicate")
     => <<reply'.status, reply'.message>> # <<reply.status, reply.message>>]_vars

(* The row createPunch wrote for the call in slot. *)
RowOf(slot) == {row \in punches : row.id = slot.id}

EffectiveRadius(s) == IF s.geoRadius = Null \/ s.geoRadius = 0 THEN DefaultGeoRadius ELSE s.geoRadius

(* The device is located and farther from the configured centre than the radius. *)
OutsideRadius(loc, s) ==
  /\ loc # Null
  /\ s.geoLat # Null
  /\ s.geoLon # Null
  /\ calculateDistance(loc, CentreLon, s.geoLat, s.geoLon) > EffectiveRadius(s)

C8_TimestampUpdateRoundTrip ==
  [][\A id \in {row.id : row \in punches}, t \in EditTimes :
       (/\ reply'.route = "update"
        /\ AdminUpdatePunch("adm", id, TimestampOnly(t)))
       => /\ \E old \in punches, new \in punches' :
               /\ old.id = id
               /\ new.id = id
               /\ RowToPunch(new).timestamp = t
               /\ RowToPunch(new) = [RowToPunch(old) EXCEPT !.timestamp = t]
          /\ Cardinality({row \in punches' : row.id = id}) = 1
          /\ {row \in punches' : row.id # id} = {row \in punches : row.id # id}]_vars

C8_Witness ==
  /\ reply.route = "update"
  /\ reply.status = 200
  /\ \E a, b \in punches :
       /\ a.id # b.id
       /\ a.timestamp = MaxNow
       /\ b.timestamp = 0
       /\ a.flagged = 1

(* The punches of one employee. *)
PunchesOf(e) == {row \in punches : row.employee_id = e}

(* C9: in every ledger that creations, updates and deletions produce, the  *)
(* last punch of an employee is a punch of that employee with no later     *)
(* punch of theirs (no punch exactly when they have none), and the         *)
(* employee shows as clocked in exactly when that punch is of type in.     *)
C9_LastPunchIsLatest ==
  \A e \in Staff :
    \A lastPunch \in getLastPunchByEmployee(punches, e) :
      /\ (lastPunch = NoPunch) <=> (PunchesOf(e) = {})
      /\ PunchesOf(e) # {}
           => \E row \in PunchesOf(e) :
                /\ lastPunch = RowToPunch(row)
                /\ \A other \in PunchesOf(e) : other.timestamp <= row.timestamp
                /\ isCurrentlyClockedIn(lastPunch) <=> (row.punch_type = "in")
      /\ PunchesOf(e) = {} => ~isCurrentlyClockedIn(lastPunch)

C9_Witness ==
  /\ reply.route \in {"update", "delete"}
  /\ reply.status = 200
  /\ \E e \in Staff :
       \E a, b \in PunchesOf(e) :
         /\ a.timestamp < b.timestamp
         /\ a.punch_type = "in"
         /\ b.punch_type = "out"
         /\ a.id > b.id

(* C10: an update, delete or manual-entry request under a session that is  *)
(* not an admin's is refused and leaves the ledger as it was; a step that   *)
(* alters or removes an existing punch is an admin's update or delete.      *)
C10_OnlyAdminAltersPunches ==
  [][/\ (/\ reply' # reply
         /\ reply'.route \in {"update", "delete", "manual"}
         /\ ~getEmployee(reply'.sess).isAdmin)
          => /\ reply'.status = 401
             /\ reply'.err = "auth"
             /\ punches' = punches
             /\ req' = req
     /\ \A r \in Slots :
          (req'[r] # req[r] /\ req'[r].route = "manual")
          => getEmployee(req'[r].sess).isAdmin
     /\ (\E row \in punches : row \notin punches')
          => /\ reply'.route \in {"update", "delete"}
             /\ reply'.status = 200
             /\ getEmployee(reply'.sess).isAdmin]_vars

C10_Witness ==
  /\ reply.sess = "emp"
  /\ reply.route \in {"update", "delete"}
  /\ reply.status = 401
  /\ punches # {}

(* -------------------- derived time: properties ------------------------ *)
(* The punches of one calendar day of the week, as listed. *)
PunchesOnDay(i) ==
  SelectSeq(dashboard.weeklyPunches, LAMBDA punch : punch.timestamp \div MsPerDay = i)

(* The punches of a list in ascending order of distinct timestamps: the     *)
(* k-th is the one with k - 1 earlier punches.                              *)
DistinctTimes(list) ==
  \A i, j \in 1..Len(list) : i # j => list[i].timestamp # list[j].timestamp

Ascending(list) ==
  [k \in 1..Len(list) |->
     CHOOSE punch \in {list[i] : i \in 1..Len(list)} :
       Cardinality({j \in 1..Len(list) : list[j].timestamp < punch.timestamp}) = k - 1]

(* in, out, in, out, ..., starting with in and ending with out. *)
Alternates(asc) ==
  /\ Len(asc) > 0
  /\ Len(asc) % 2 = 0
  /\ \A k \in 1..Len(asc) : asc[k].punchType = (IF k % 2 = 1 THEN "in" ELSE "out")

RECURSIVE SumOf(_, _)
SumOf(f, S) ==
  IF S = {} THEN 0
  ELSE LET k == CHOOSE x \in S : TRUE IN f[k] + SumOf(f, S \ {k})

(* Sum of (out - in) over the successive pairs of an alternating day. *)
PairedTime(asc) ==
  SumOf([k \in 1..(Len(asc) \div 2) |-> asc[2 * k].timestamp - asc[2 * k - 1].timestamp],
        1..(Len(asc) \div 2))

(* Sum of the gaps between each out and the in that follows it. *)
GapTime(asc) ==
  SumOf([k \in 1..((Len(asc) \div 2) - 1) |-> asc[2 * k + 1].timestamp - asc[2 * k].timestamp],
        1..((Len(asc) \div 2) - 1))

(* A displayed quotient equals an amount given in milliseconds. *)
Shows(quotient, ms, unit) == quotient.den = unit /\ quotient.num = ms

(* C11: for a day whose punches, in order of (distinct) timestamps,        *)
(* alternate in, out, ..., in, out, the hours shown are the sum of         *)
(* (out - in) over the pairs and, for today, the break minutes shown are   *)
(* the sum of the gaps between an out and the next in, whether or not the  *)
(* employee counts as clocked in.                                          *)
C11_AlternatingDayTotals ==
  dashboard.phase = "shown" =>
    \A i \in DaysOfWeek :
      (DistinctTimes(PunchesOnDay(i)) /\ Alternates(Ascending(PunchesOnDay(i))))
      => /\ Shows(dashboard.weeklyHours[i], PairedTime(Ascending(PunchesOnDay(i))), MsPerHour)
         /\ i = TodayIndex =>
              /\ Shows(dashboard.hoursWorked, PairedTime(Ascending(PunchesOnDay(i))), MsPerHour)
              /\ Shows(dashboard.breakTime, GapTime(Ascending(PunchesOnDay(i))), MsPerMinute)

(* in@09:00, out@12:00, in@13:00, out@17:00 today show 7.0 hours and 60 minutes. *)
C11_Witness ==
  /\ dashboard.phase = "shown"
  /\ dashboard.isCurrentlyClockedIn
  /\ PunchesOnDay(TodayIndex) =
       <<[punchType |-> "out", timestamp |-> TodayIndex * MsPerDay + ClockTime(17, 0)],
         [punchType |-> "in", timestamp |-> TodayIndex * MsPerDay + ClockTime(13, 0)],
         [punchType |-> "out", timestamp |-> TodayIndex * MsPerDay + ClockTime(12, 0)],
         [punchType |-> "in", timestamp |-> TodayIndex * MsPerDay + ClockTime(9, 0)]>>
  /\ dashboard.hoursWorked.num = 7 * dashboard.hoursWorked.den
  /\ dashboard.breakTime.num = 60 * dashboard.breakTime.den
  /\ dashboard.weeklyHours[TodayIndex].num = 7 * dashboard.weeklyHours[TodayIndex].den

(* The worked milliseconds of the sessions a list closes, by the today memo *)
(* evaluated for an employee who is not clocked in.                        *)
ClosedTime(list) == HoursWorkedAndBreakTime(list, FALSE, 0).hoursWorked.num

(* The newest punch of the day is an in, later than every other punch of   *)
(* the day: the sorted punches end with an unclosed in.                    *)
EndsWithOpenIn(list) ==
  /\ list # <<>>
  /\ Head(list).punchType = "in"
  /\ \A k \in 2..Len(list) : list[k].timestamp < Head(list).timestamp

(* C12: when the punches of a day end with an unclosed in, today's totals  *)
(* of a clocked-in employee are the closed sessions plus (now - that in),  *)
(* and the total of a past day is the closed sessions alone.               *)
C12_OpenInLiveOnlyToday ==
  dashboard.phase = "shown" =>
    \A i \in DaysOfWeek :
      EndsWithOpenIn(PunchesOnDay(i))
      => LET closed == ClosedTime(Tail(PunchesOnDay(i)))
             live == dashboard.at - Head(PunchesOnDay(i)).timestamp
         IN /\ (i = TodayIndex /\ dashboard.isCurrentlyClockedIn)
                 => /\ Shows(dashboard.hoursWorked, closed + live, MsPerHour)
                    /\ Shows(dashboard.weeklyHours[i], closed + live, MsPerHour)
            /\ i # TodayIndex => Shows(dashboard.weeklyHours[i], closed, MsPerHour)

(* in@09:00 today at 11:00 shows 2.0 hours; in@09:00 yesterday shows 0. *)
C12_Witness ==
  /\ dashboard.phase = "shown"
  /\ dashboard.isCurrentlyClockedIn
  /\ dashboard.at = TodayIndex * MsPerDay + ClockTime(11, 0)
  /\ dashboard.weeklyPunches =
       <<[punchType |-> "in", timestamp |-> TodayIndex * MsPerDay + ClockTime(9, 0)],
         [punchType |-> "in", timestamp |-> (TodayIndex - 1) * MsPerDay + ClockTime(9, 0)]>>
  /\ dashboard.hoursWorked.num = 2 * dashboard.hoursWorked.den
  /\ dashboard.weeklyHours[TodayIndex].num = 2 * dashboard.weeklyHours[TodayIndex].den
  /\ dashboard.weeklyHours[TodayIndex - 1].num = 0

(* The time between each out and the punch just before it when that punch  *)
(* is an in: the in that opens the session is the latest one before the    *)
(* out, and an out that follows an out (or nothing) adds nothing.          *)
SessionTime(asc) ==
  SumOf([k \in 1..Len(asc) |->
           IF k > 1 /\ asc[k].punchType = "out" /\ asc[k - 1].punchType = "in"
           THEN asc[k].timestamp - asc[k - 1].timestamp ELSE 0],
        1..Len(asc))

(* C13: whatever the order of ins and outs of a day (without a live       *)
(* add-on), the hours shown are the time from the latest in before each    *)
(* out to that out; earlier unclosed ins and outs with no open in add      *)
(* nothing.                                                                *)
C13_UnpairedPunchesTolerated ==
  dashboard.phase = "shown" =>
    \A i \in DaysOfWeek :
      DistinctTimes(PunchesOnDay(i))
      => /\ (i # TodayIndex \/ ~dashboard.isCurrentlyClockedIn)
              => Shows(dashboard.weeklyHours[i], SessionTime(Ascending(PunchesOnDay(i))), MsPerHour)
         /\ (i = TodayIndex /\ ~dashboard.isCurrentlyClockedIn)
              => Shows(dashboard.hoursWorked, SessionTime(Ascending(PunchesOnDay(i))), MsPerHour)

(* in@09:00, in@09:05, out@12:00 shows 2 h 55 min; a leading out adds nothing. *)
C13_Witness ==
  /\ dashboard.phase = "shown"
  /\ ~dashboard.isCurrentlyClockedIn
  /\ dashboard.weeklyPunches =
       <<[punchType |-> "out", timestamp |-> TodayIndex * MsPerDay + ClockTime(12, 0)],
         [punchType |-> "in", timestamp |-> TodayIndex * MsPerDay + ClockTime(9, 5)],
         [punchType |-> "in", timestamp |-> TodayIndex * MsPerDay + ClockTime(9, 0)],
         [punchType |-> "out", timestamp |-> (TodayIndex - 1) * MsPerDay + ClockTime(17, 0)]>>
  /\ dashboard.hoursWorked.num = 175 * MsPerMinute
  /\ dashboard.weeklyHours[TodayIndex - 1].num = 0

(* C14: a decision on a correction never changes the ledger. Every step    *)
(* that ends with the response of PUT /api/admin/corrections/:id (to any     *)
(* session, id and body) leaves the punches the same rows: none is created,  *)
(* none deleted, and each keeps its timestamp, punchType and flagged value,  *)
(* the punch the correction references included.                             *)
C14_DecisionLeavesLedger ==
  [][reply'.route = "decide"
       => /\ {row.id : row \in punches'} = {row.id : row \in punches}
          /\ \A old \in punches, new \in punches' :
               old.id = new.id => RowToPunch(new) = RowToPunch(old)]_vars

(* An approved correction whose referenced punch is in the ledger, just decided. *)
C14_Witness ==
  /\ reply.route = "decide"
  /\ reply.status = 200
  /\ \E c \in corrections :
       /\ c.status = "approved"
       /\ \E row \in punches : row.id = c.punch_id

(* The status of the correction id in a corrections table, Absent when no row has it. *)
StatusOf(table, id) ==
  IF \E c \in table : c.id = id THEN (CHOOSE c \in table : c.id = id).status ELSE Absent

Blank(note) == note = Absent \/ trim(note) = ""

(* C15: deciding a pending correction as denied with a missing, empty or    *)
(* whitespace-only note is rejected with a conflict error and leaves the     *)
(* correction pending; with a non-blank note the correction becomes denied.  *)
C15_BlankDenialRejected ==
  [][\A id \in {c.id : c \in corrections}, body \in DecideBodies :
       (/\ reply'.route = "decide"
        /\ body.status = "denied"
        /\ StatusOf(corrections, id) = "pending"
        /\ DecideCorrection("adm", id, body))
       => IF Blank(body.note)
          THEN reply'.err = "conflict" /\ StatusOf(corrections', id) = "pending"
          ELSE StatusOf(corrections', id) = "denied"]_vars

(* C16: the status of a correction is one-way and terminal. A correction    *)
(* enters the table pending, and a correction that is approved or denied     *)
(* has that same status after every later step.                              *)
C16_StatusOneWay ==
  [][/\ \A c \in corrections' :
          c.id \notin {old.id : old \in corrections} => c.status = "pending"
     /\ \A c \in corrections :
          c.status \in {"approved", "denied"} => StatusOf(corrections', c.id) = c.status]_vars

(* A request is processed once its processed_by and processed_date are set. *)
Processed(row) == row.processed_by # NullText /\ row.processed_date # Null

(* C17: once a time-off request is processed, its processedDate, its        *)
(* processedBy and its decided status are the same after every later step.   *)
C17_ProcessingImmutable ==
  [][\A old \in timeOffRequests :
       Processed(old)
       => \E new \in timeOffRequests' :
            /\ new.id = old.id
            /\ new.processed_date = old.processed_date
            /\ new.processed_by = old.processed_by
            /\ new.status = old.status]_vars

(* C18: every stored time-off request with isPartialDay true has a start    *)
(* time and an end time and begins and ends on the same date.                *)
C18_PartialDayWellFormed ==
  \A row \in timeOffRequests :
    row.is_partial_day # 0
    => /\ row.start_time # NullText
       /\ row.end_time # NullText
       /\ row.start_date = row.end_date

(* The requests whose [startDate, endDate] meets [qs, qe], bounds included. *)
Intersecting(rows, qs, qe) == {row \in rows : row.start_date <= qe /\ row.end_date >= qs}

(* C19: on every back end the calendar query for [qs, qe] answers exactly    *)
(* the requests whose [startDate, endDate] intersects [qs, qe], whatever     *)
(* their isPartialDay and time-of-day fields.                                *)
C19_CalendarIsIntersection ==
  [][calendar' # calendar
       => calendar'.requests =
            {row.id : row \in Intersecting(timeOffRequests, calendar'.startDate, calendar'.endDate)}]_vars

(* The punches of an employee inside today's window [midnight, midnight + 24 h). *)
TodayOf(e) ==
  {r \in punches : /\ r.employee_id = e
                   /\ r.timestamp >= startOfDay(now)
                   /\ r.timestamp < startOfDay(now) + MsPerDay}

(* The employee's last punch of today is an in. *)
LastTodayIsIn(e) ==
  \E last \in TodayOf(e) :
     /\ last.punch_type = "in"
     /\ \A r \in TodayOf(e) : r.timestamp <= last.timestamp

(* No employee has two punches of today at the same greatest time. *)
LastTodayDecided ==
  \A e \in Staff : \A a, b \in TodayOf(e) :
     (a # b /\ a.timestamp = b.timestamp) => \E r \in TodayOf(e) : r.timestamp > a.timestamp

(* C20: the clocked-in statistic answered by the stats route is the number  *)
(* of employees whose last punch inside today's window is an in; an          *)
(* employee who punched in and then out today is not counted.                *)
C20_ClockedInIsLastPunchIn ==
  [][(adminStats' # adminStats /\ LastTodayDecided)
       => adminStats'.clockedInToday = Cardinality({e \in Staff : LastTodayIsIn(e)})]_vars

(* C21: once the ledger has committed a self-service punch, the request is  *)
(* answered with success and the punch stays in the ledger: the step that    *)
(* ends a request whose punch is committed answers 200 with that punch, and  *)
(* no step of the lookup or of the sync (disabled, succeeding, failing or    *)
(* throwing) takes a punch out of the ledger.                                *)
C21_CommittedPunchReportsSuccess ==
  [][/\ \A r \in Slots :
          (req[r].pc = "created" /\ req'[r].pc = "idle")
          => /\ reply'.status = 200
             /\ reply'.id = req[r].id
             /\ \E row \in punches' : row.id = req[r].id
     /\ punches \subseteq punches']_vars

(* C22: the storage back end does not change punch behaviour. After every   *)
(* sequence of createPunch calls made at the same wall-clock times on both   *)
(* stores, the MySQL store has answered the last call as the SQLite store    *)
(* did (accepted or rejected), a same-employee same-type call inside the     *)
(* 30-second window included.                                                *)
C22_StoresAnswerAlike ==
  replay.answer[2] = replay.answer[1]

(* A ledger row that makes the createPunch call of a slot a duplicate: same *)
(* employee, same type, stored timestamp strictly later than the call's      *)
(* insert time minus 30 000 ms.                                              *)
Duplicates(row, slot) ==
  /\ row.employee_id = slot.punch.employeeId
  /\ row.punch_type = slot.punch.punchType
  /\ row.timestamp > slot.timestamp - 30000

(* C23: createPunch is rejected as a duplicate only when the ledger holds a *)
(* punch of the same employee and type with a timestamp strictly later than  *)
(* insert time - 30 000 ms. Without such a row (a recent punch of the other  *)
(* type, of another employee, or a same-type punch exactly 30 s old) the     *)
(* duplicate check lets the call go on to its INSERT.                        *)
C23_RejectedOnlyInsideWindow ==
  [][\A r \in Slots :
       Advances(r, "get")
       => /\ req'[r].pc = "idle"
               => /\ reply'.err = "duplicate"
                  /\ \E row \in punches : Duplicates(row, req[r])
          /\ (~\E row \in punches : Duplicates(row, req[r]))
               => req'[r] = [req[r] EXCEPT !.pc = "run"] /\ reply' = reply]_vars

(* Two punches of one employee and type are in the ledger exactly 30 s     *)
(* apart: the later one passed the duplicate check.                          *)
C23_Witness ==
  \E a, b \in punches :
     /\ a.employee_id = b.employee_id
     /\ a.punch_type = b.punch_type
     /\ b.timestamp - a.timestamp = 30000

(* The sum of the gaps over the adjacent pairs of an ascending list whose   *)
(* earlier punch has type first and whose later punch has type second.       *)
AdjacentGaps(asc, first, second) ==
  SumOf([k \in 1..(Len(asc) - 1) |->
           IF asc[k].punchType = first /\ asc[k + 1].punchType = second
           THEN asc[k + 1].timestamp - asc[k].timestamp ELSE 0],
        1..(Len(asc) - 1))

(* C24: the break minutes shown are the sum of the gaps over every adjacent *)
(* pair (out, in) of today's punches in order of (distinct) timestamps,      *)
(* whatever came before the out and whether or not the employee counts as    *)
(* clocked in; with no punch today the hours and the break time shown are 0. *)
C24_BreakTimeOverRawAdjacency ==
  dashboard.phase = "shown" =>
    /\ DistinctTimes(PunchesOnDay(TodayIndex))
         => Shows(dashboard.breakTime,
                  AdjacentGaps(Ascending(PunchesOnDay(TodayIndex)), "out", "in"), MsPerMinute)
    /\ PunchesOnDay(TodayIndex) = <<>>
         => /\ Shows(dashboard.hoursWorked, 0, MsPerHour)
            /\ Shows(dashboard.breakTime, 0, MsPerMinute)

(* out@09:00 closes no session, in@12:00 follows it: 180 minutes of break. *)
C24_Witness ==
  /\ dashboard.phase = "shown"
  /\ PunchesOnDay(TodayIndex) =
       <<[punchType |-> "in", timestamp |-> TodayIndex * MsPerDay + ClockTime(12, 0)],
         [punchType |-> "out", timestamp |-> TodayIndex * MsPerDay + ClockTime(9, 0)]>>
  /\ dashboard.breakTime.num = 180 * MsPerMinute

(* C25: the hours of each day of the week are the sessions closed by the    *)
(* punches of that calendar date alone (an in of one day is never closed by *)
(* an out of the next), and only today's bucket, for a clocked-in employee  *)
(* whose last punch of today is an in, adds (now - that in).                *)
C25_DayBucketsIndependent ==
  dashboard.phase = "shown" =>
    \A i \in DaysOfWeek :
      DistinctTimes(PunchesOnDay(i))
      => LET asc == Ascending(PunchesOnDay(i))
             live == IF /\ i = TodayIndex /\ dashboard.isCurrentlyClockedIn
                        /\ Len(asc) > 0 /\ asc[Len(asc)].punchType = "in"
                     THEN dashboard.at - asc[Len(asc)].timestamp ELSE 0
         IN Shows(dashboard.weeklyHours[i], SessionTime(asc) + live, MsPerHour)

(* in@17:00 yesterday, out@09:00 today: the session across midnight adds 0 *)
(* to both days.                                                           *)
C25_Witness ==
  /\ dashboard.phase = "shown"
  /\ dashboard.isCurrentlyClockedIn
  /\ dashboard.weeklyPunches =
       <<[punchType |-> "out", timestamp |-> TodayIndex * MsPerDay + ClockTime(9, 0)],
         [punchType |-> "in", timestamp |-> (TodayIndex - 1) * MsPerDay + ClockTime(17, 0)]>>
  /\ dashboard.weeklyHours[TodayIndex].num = 0
  /\ dashboard.weeklyHours[TodayIndex - 1].num = 0

(* The live add-on applies: a clocked-in employee whose newest punch of the *)
(* day is an in.                                                            *)
LiveAddOn(list) ==
  /\ dashboard.isCurrentlyClockedIn
  /\ list # <<>>
  /\ \E k \in 1..Len(list) :
        /\ list[k].punchType = "in"
        /\ \A j \in 1..Len(list) : list[j].timestamp <= list[k].timestamp

(* The time from the earliest to the latest punch of a list. *)
Span(list) ==
  IF list = <<>> THEN 0
  ELSE LET times == {list[k].timestamp : k \in 1..Len(list)}
       IN (CHOOSE t \in times : \A u \in times : u <= t)
          - (CHOOSE t \in times : \A u \in times : t <= u)

(* C30: without the live add-on, today's worked time is the sum of the gaps *)
(* over adjacent pairs (in, out) and today's break time the sum over        *)
(* adjacent pairs (out, in) of the punches in order of (distinct)           *)
(* timestamps, as is each day's bucket of the week; both totals are at      *)
(* least 0 and together at most the span from the first to the last punch.  *)
C30_WalkAndPassPartitionAdjacency ==
  dashboard.phase = "shown" =>
    /\ ~LiveAddOn(PunchesOnDay(TodayIndex))
         => /\ dashboard.hoursWorked.num >= 0
            /\ dashboard.breakTime.num >= 0
            /\ dashboard.hoursWorked.num + dashboard.breakTime.num <= Span(PunchesOnDay(TodayIndex))
            /\ DistinctTimes(PunchesOnDay(TodayIndex))
                 => /\ Shows(dashboard.hoursWorked,
                             AdjacentGaps(Ascending(PunchesOnDay(TodayIndex)), "in", "out"), MsPerHour)
                    /\ Shows(dashboard.breakTime,
                             AdjacentGaps(Ascending(PunchesOnDay(TodayIndex)), "out", "in"), MsPerMinute)
    /\ \A i \in DaysOfWeek :
         (i # TodayIndex \/ ~LiveAddOn(PunchesOnDay(i)))
         => /\ dashboard.weeklyHours[i].num >= 0
            /\ dashboard.weeklyHours[i].num <= Span(PunchesOnDay(i))
            /\ DistinctTimes(PunchesOnDay(i))
                 => Shows(dashboard.weeklyHours[i],
                          AdjacentGaps(Ascending(PunchesOnDay(i)), "in", "out"), MsPerHour)

(* in@09:00, in@09:05, out@12:00, in@13:00, not clocked in: 175 minutes    *)
(* worked and 60 minutes of break in a span of 240 minutes.                *)
C30_Witness ==
  /\ dashboard.phase = "shown"
  /\ ~dashboard.isCurrentlyClockedIn
  /\ PunchesOnDay(TodayIndex) =
       <<[punchType |-> "in", timestamp |-> TodayIndex * MsPerDay + ClockTime(13, 0)],
         [punchType |-> "out", timestamp |-> TodayIndex * MsPerDay + ClockTime(12, 0)],
         [punchType |-> "in", timestamp |-> TodayIndex * MsPerDay + ClockTime(9, 5)],
         [punchType |-> "in", timestamp |-> TodayIndex * MsPerDay + ClockTime(9, 0)]>>
  /\ dashboard.hoursWorked.num = 175 * MsPerMinute
  /\ dashboard.breakTime.num = 60 * MsPerMinute
  /\ Span(PunchesOnDay(TodayIndex)) = 240 * MsPerMinute

(* C26: in every state a time-off request has its processed_date and its    *)
(* processed_by set exactly when its status is approved or denied; while    *)
(* it is pending both are null.                                             *)
C26_ProcessedIffDecided ==
  \A row \in timeOffRequests :
    /\ (row.processed_date # Null) <=> (row.status \in {"approved", "denied"})
    /\ (row.processed_by # NullText) <=> (row.status \in {"approved", "denied"})

(* C28: a time-off request that a step creates is pending with no admin     *)
(* response and no processed_by, whatever the body carried, and a request    *)
(* becomes approved or denied only by an admin's PATCH.                      *)
C28_CreatedStartsPending ==
  [][\A new \in timeOffRequests' :
       IF new.id \notin {row.id : row \in timeOffRequests}
       THEN /\ new.status = "pending"
            /\ new.admin_response = NullText
            /\ new.processed_by = NullText
       ELSE \A row \in timeOffRequests :
              (row.id = new.id /\ row.status # new.status /\ new.status \in {"approved", "denied"})
              => reply'.route = "process" /\ isAdmin(reply'.sess)]_vars

(* C29: a time-off request, whatever its status, leaves the table only by a *)
(* delete under the session of the employee who owns it or of an admin.      *)
C29_DeleteByOwnerOrAdmin ==
  [][\A row \in timeOffRequests :
       row.id \notin {new.id : new \in timeOffRequests'}
       => /\ reply'.route = "delete-time-off"
          /\ reply'.sess = row.employee_id \/ isAdmin(reply'.sess)]_vars

(* C27: once Stay Logged In has answered the countdown, no firing of an     *)
(* interval logs the employee out; and a countdown that is running leads to *)
(* a logout unless Stay Logged In is chosen.                                *)
C27_StayStopsCountdown ==
  /\ [](~(kiosk.stayChosen /\ kiosk.loggedOutBy = "tick"))
  /\ (kiosk.logoutCountdown > 0) ~> (kiosk.loggedOutBy # "none" \/ kiosk.stayChosen)

====
